---------------------------- MODULE Spec2Model ----------------------------
(***************************************************************************)
(* A model of the RCM (RADARSAT Constellation Mission) GDAL raster driver, *)
(* rcmdataset.cpp: the band-file prober, Identify, the band assembly of    *)
(* Open, the LUT loader and the block reads of the calibrated band.        *)
(***************************************************************************)
EXTENDS Integers, Sequences, FiniteSets, TLC

VARIABLES
    probeIn,    \* arguments of the last checkBandFileMappingRCM call
    probeOut,   \* its result, "none" before the call
    idIn,       \* the GDALOpenInfo (and file system facts) given to Identify
    idOut,      \* its result, "none" before the call
    world,      \* the product on disk: descriptor, image files, LUT files
    ds,         \* the dataset Open returned, NoDS, or a failed/crashed Open
    rd          \* the last block read: band, block, error code, output block

vars == <<probeIn, probeOut, idIn, idOut, world, ds, rd>>

(***************************************************************************)
(* GDAL element types                                                      *)
(***************************************************************************)
RealTypes == {"Byte", "UInt16", "Int16", "UInt32", "Int32", "Float32", "Float64"}

ComplexTypes == {"CInt16", "CInt32", "CFloat32", "CFloat64"}

GDALDataTypes == RealTypes \cup ComplexTypes

GDALDataTypeIsComplex(t) == t \in ComplexTypes

(***************************************************************************)
(* checkBandFileMappingRCM: the band-file prober.  A band file is seen     *)
(* through its band count and the element types of its bands 1 and 2.      *)
(***************************************************************************)
MaxBands == 4

BandFiles ==
    { [count |-> n, t1 |-> a, t2 |-> b] :
        n \in 1..MaxBands, a \in GDALDataTypes, b \in GDALDataTypes }

RealHalfPair(dataType, bandfileType) ==
    \/ dataType = "CInt16" /\ bandfileType = "Int16"
    \/ dataType = "CInt32" /\ bandfileType = "Int32"
    \/ dataType = "CFloat32" /\ bandfileType = "Float32"
    \/ dataType = "CFloat64" /\ bandfileType = "Float64"

SameComplexPair(dataType, bandfileType) ==
    \/ dataType = "CInt16" /\ bandfileType = "CInt16"
    \/ dataType = "CInt32" /\ bandfileType = "CInt32"
    \/ dataType = "CFloat32" /\ bandfileType = "CFloat32"
    \/ dataType = "CFloat64" /\ bandfileType = "CFloat64"

\* Variants of the prober the properties below must tell from it: one that
\* does not compare types, one without the return on two bands of different
\* types.
checkBandFileMappingRCM_NoTypeCheck(dataType, poBandFile, isNITF) ==
    IF poBandFile.count = 1 \/ poBandFile.count = 4
    THEN "STRAIGHT"
    ELSE IF isNITF THEN "STRAIGHT" ELSE "BANDERROR"

checkBandFileMappingRCM_NoMismatchReturn(dataType, poBandFile, isNITF) ==
    LET bandfileType == poBandFile.t1 IN
    IF (poBandFile.count = 1 \/ poBandFile.count = 4) /\ dataType = bandfileType
    THEN "STRAIGHT"
    ELSE IF /\ poBandFile.count = 2
            /\ GDALDataTypeIsComplex(dataType)
            /\ bandfileType = poBandFile.t2
            /\ (RealHalfPair(dataType, bandfileType)
                  \/ SameComplexPair(dataType, bandfileType))
    THEN "TWOBANDCOMPLEX"
    ELSE IF isNITF THEN "STRAIGHT" ELSE "BANDERROR"

checkBandFileMappingRCM(dataType, poBandFile, isNITF) ==
    LET bandfileType == poBandFile.t1 IN
    IF (poBandFile.count = 1 \/ poBandFile.count = 4) /\ dataType = bandfileType
    THEN "STRAIGHT"
    ELSE IF poBandFile.count = 2 /\ GDALDataTypeIsComplex(dataType)
              /\ bandfileType # poBandFile.t2
    THEN "BANDERROR"
    ELSE IF poBandFile.count = 2 /\ GDALDataTypeIsComplex(dataType)
              /\ RealHalfPair(dataType, bandfileType)
    THEN "TWOBANDCOMPLEX"
    ELSE IF poBandFile.count = 2 /\ GDALDataTypeIsComplex(dataType)
              /\ SameComplexPair(dataType, bandfileType)
    THEN "TWOBANDCOMPLEX"
    ELSE IF isNITF THEN "STRAIGHT"
    ELSE "BANDERROR"


(***************************************************************************)
(* The product on disk                                                     *)
(***************************************************************************)
MaxWidth == 3        \* the valid samplesPerLine of the modelled products
MaxHeight == 3       \* the valid numLines of the modelled products
BlockXSize == 2      \* block width reported by the image files
BlockYSize == 2      \* block height reported by the image files
MaxLutValues == 3    \* largest numberOfValues of a LUT file

\* An image file as GDALOpen sees it: opens = FALSE is a file GDALOpen
\* cannot open; count = 0 a file without bands.
NoFile == [opens |-> FALSE, count |-> 0, t1 |-> "Byte", t2 |-> "Byte"]

ImageFile(n, a, b) == [opens |-> TRUE, count |-> n, t1 |-> a, t2 |-> b]

\* A LUT file: the scalars of <lut> and its gains list.
LutFile(off, pf, step, n) ==
    [offset |-> off, pixelFirstLutValue |-> pf, stepSize |-> step,
     numberOfValues |-> n, gains |-> [k \in 1..n |-> 2 * k]]

\* A LUT file that cannot be parsed: every CPLGetXMLValue yields its default.
NoLut == LutFile(0, 0, 0, 0)

(***************************************************************************)
(* Text: a string the driver builds is a sequence of characters.           *)
(***************************************************************************)
Digit(d) == CASE d = 0 -> "0" [] d = 1 -> "1" [] d = 2 -> "2" [] d = 3 -> "3"
              [] d = 4 -> "4" [] d = 5 -> "5" [] d = 6 -> "6" [] d = 7 -> "7"
              [] d = 8 -> "8" [] d = 9 -> "9"

RECURSIVE FormatD(_)
\* sprintf(snum, "%d", n) for n >= 0
FormatD(n) == IF n < 10 THEN <<Digit(n)>>
              ELSE FormatD(n \div 10) \o <<Digit(n % 10)>>

\* sprintf(bandNumber, "%s", <int>): an int is passed where "%s" wants a
\* char*, which is undefined.  The call either faults or leaves bytes that
\* are not the decimal digits of the number.
BandNumberOutcomes == {"fault", "empty", "junk"}

BandNumberText(outcome) == IF outcome = "empty" THEN <<>> ELSE <<"?">>

Abs(x) == IF x < 0 THEN -x ELSE x

\* SetMetadataItem: the item of that name is replaced.
SetMetadataItem(md, name, suffix, value) ==
    { m \in md : ~(m.name = name /\ m.suffix = suffix) }
      \cup {[name |-> name, suffix |-> suffix, value |-> value]}

(***************************************************************************)
(* InterpolateValues (declared in gdal_lut.h): the dense table of          *)
(* tableSize entries from the raw list.                                    *)
(***************************************************************************)
Reverse(s) == [k \in 1..Len(s) |-> s[Len(s) + 1 - k]]

\* (A variant that takes the list in its own order whatever the step's sign.)
InterpolateValues_NoReverse(papszList, tableSize, stepSize, numberOfValues, pixelFirstLutValue) ==
    LET raw  == papszList
        s    == Abs(stepSize)
        At(x) ==
            IF x < pixelFirstLutValue THEN raw[1]
            ELSE LET k == (x - pixelFirstLutValue) \div s
                     r == (x - pixelFirstLutValue) % s
                 IN  IF k >= numberOfValues - 1 THEN raw[numberOfValues]
                     ELSE raw[k + 1] + ((raw[k + 2] - raw[k + 1]) * r) \div s
    IN  [x \in 1..tableSize |-> At(x - 1)]

InterpolateValues(papszList, tableSize, stepSize, numberOfValues, pixelFirstLutValue) ==
    LET raw  == IF stepSize < 0 THEN Reverse(papszList) ELSE papszList
        s    == Abs(stepSize)
        At(x) ==
            IF x < pixelFirstLutValue THEN raw[1]
            ELSE LET k == (x - pixelFirstLutValue) \div s
                     r == (x - pixelFirstLutValue) % s
                 IN  IF k >= numberOfValues - 1 THEN raw[numberOfValues]
                     ELSE raw[k + 1] + ((raw[k + 2] - raw[k + 1]) * r) \div s
    IN  [x \in 1..tableSize |-> At(x - 1)]

(***************************************************************************)
(* RCMCalibRasterBand::ReadLUT.  nextBand is poDS->GetRasterCount()+1.     *)
(* The result is the band's LUT fields and the dataset metadata.           *)
(***************************************************************************)
NullTable == <<>>

\* A table entry copied from memory the code does not own.
Undetermined == 0 - 1

ReadLUT(lut, nRasterXSize, md, fmt) ==
    LET bandNumber == BandNumberText(fmt)
        size == Abs(lut.stepSize) * Abs(lut.numberOfValues)
        failed(sz) == [m_nfTable |-> NullTable, hasTable |-> FALSE,
                       m_nTableSize |-> sz, m_nfOffset |-> lut.offset, md |-> md]
    IN  IF lut.numberOfValues <= 0 THEN failed(0)
        ELSE IF lut.stepSize <= 0 /\ lut.pixelFirstLutValue <= 0 THEN failed(0)
        ELSE IF size < nRasterXSize THEN failed(size)
        ELSE [m_nfTable |-> InterpolateValues(lut.gains, size, lut.stepSize,
                                lut.numberOfValues, lut.pixelFirstLutValue),
              hasTable |-> TRUE,
              m_nTableSize |-> size,
              m_nfOffset |-> lut.offset,
              md |-> SetMetadataItem(
                       SetMetadataItem(md, "LUT_GAINS_", bandNumber, <<"gains">>),
                       "LUT_SIZE_", bandNumber, FormatD(size))]

(***************************************************************************)
(* RCMDataset::Identify.  A descriptor file is seen through what parsing   *)
(* it gives: "absent", "unparsable", "noproduct" (no <product> root),      *)
(* "nonrcm" (xmlns without "rcm") or "rcm".                                *)
(***************************************************************************)
Descriptors == {"absent", "unparsable", "noproduct", "nonrcm", "rcm"}

HeaderMin == 100     \* nHeaderBytes < 100 is rejected
HeaderSizes == {0, HeaderMin - 1, HeaderMin, HeaderMin + 1}

\* The GDALOpenInfo and the facts of the file system Identify looks at:
\*   prefix     the name starts with RCM_CALIB: (STARTS_WITH_CI)
\*   root, meta <dir>/product.xml and <dir>/metadata/product.xml
\*   nameEnds   the last 11 characters of the name are "product.xml"
\*   basename   the basename of the name is exactly product.xml
\*   hdrRcm, hdrProduct  the header bytes hold "/rcm" and "<product"
\*   desc       the descriptor file the name designates when not a directory
OpenInfos ==
    { i \in [prefix : BOOLEAN, bIsDirectory : BOOLEAN, root : Descriptors,
             meta : Descriptors, nameEnds : BOOLEAN, basename : BOOLEAN,
             nHeaderBytes : HeaderSizes, hdrRcm : BOOLEAN,
             hdrProduct : BOOLEAN, desc : Descriptors] :
        /\ i.basename => i.nameEnds
        /\ i.bIsDirectory => (~i.nameEnds /\ i.desc = "absent"
                                /\ i.nHeaderBytes = 0 /\ ~i.hdrRcm /\ ~i.hdrProduct)
        /\ ~i.bIsDirectory => (i.root = "absent" /\ i.meta = "absent") }

\* The check of a product.xml found in a directory.
IdentifyProduct(d) == d = "rcm"

\* (A variant of Identify that checks the descriptor behind a prefixed name.)
Identify_ValidatePrefix(info) ==
    IF info.prefix THEN IdentifyProduct(info.desc)
    ELSE IF info.bIsDirectory
    THEN IF info.root # "absent" THEN IdentifyProduct(info.root)
         ELSE IF info.meta # "absent" THEN IdentifyProduct(info.meta)
         ELSE FALSE
    ELSE IF ~info.nameEnds THEN FALSE
    ELSE IF info.nHeaderBytes < HeaderMin THEN FALSE
    ELSE IF ~info.hdrRcm \/ ~info.hdrProduct THEN FALSE
    ELSE TRUE

Identify(info) ==
    IF info.prefix THEN TRUE
    ELSE IF info.bIsDirectory
    THEN IF info.root # "absent" THEN IdentifyProduct(info.root)
         ELSE IF info.meta # "absent" THEN IdentifyProduct(info.meta)
         ELSE FALSE
    ELSE IF ~info.nameEnds THEN FALSE
    ELSE IF info.nHeaderBytes < HeaderMin THEN FALSE
    ELSE IF ~info.hdrRcm \/ ~info.hdrProduct THEN FALSE
    ELSE TRUE

(***************************************************************************)
(* Dataset names.  A name is a sequence of characters; a path without a    *)
(* separator in it is one element of the sequence.                         *)
(***************************************************************************)
szLayerCalibration == <<"R", "C", "M", "_", "C", "A", "L", "I", "B">>

szLayerSeparator == <<":">>

szSIGMA0 == <<"S", "I", "G", "M", "A", "0">>

szGAMMA == <<"G", "A", "M", "M", "A">>

szBETA0 == <<"B", "E", "T", "A", "0">>

szUNCALIB == <<"U", "N", "C", "A", "L", "I", "B">>

szGAMMA0 == <<"G", "A", "M", "M", "A", "0">>

\* toupper and tolower on the letters the names are written with
ToUpper(c) ==
    CASE c = "a" -> "A" [] c = "b" -> "B" [] c = "c" -> "C" [] c = "e" -> "E"
      [] c = "g" -> "G" [] c = "i" -> "I" [] c = "l" -> "L" [] c = "m" -> "M"
      [] c = "n" -> "N" [] c = "r" -> "R" [] c = "s" -> "S" [] c = "t" -> "T"
      [] c = "u" -> "U" [] c = "x" -> "X" [] c = "d" -> "D" [] c = "k" -> "K"
      [] OTHER -> c

ToLower(c) ==
    CASE c = "A" -> "a" [] c = "B" -> "b" [] c = "C" -> "c" [] c = "E" -> "e"
      [] c = "G" -> "g" [] c = "I" -> "i" [] c = "L" -> "l" [] c = "M" -> "m"
      [] c = "N" -> "n" [] c = "R" -> "r" [] c = "S" -> "s" [] c = "T" -> "t"
      [] c = "U" -> "u" [] c = "X" -> "x" [] c = "D" -> "d" [] c = "K" -> "k"
      [] OTHER -> c

LowerCase(str) == [i \in 1..Len(str) |-> ToLower(str[i])]

STARTS_WITH_CI(str, prefix) ==
    /\ Len(str) >= Len(prefix)
    /\ \A i \in 1..Len(prefix) : ToUpper(str[i]) = ToUpper(prefix[i])

\* A NULL char* argument
NullStr == <<"(null)">>

\* FormatCalibration(pszCalibName, pszFilename)
FormatCalibration(pszCalibName, pszFilename) ==
    IF pszCalibName # NullStr \/ pszFilename # NullStr
    THEN szLayerCalibration
           \o (IF pszCalibName # NullStr THEN szLayerSeparator \o pszCalibName ELSE <<>>)
           \o (IF pszFilename # NullStr THEN szLayerSeparator \o pszFilename ELSE <<>>)
    ELSE szLayerCalibration \o szLayerSeparator

\* The product on disk is the directory ProductDir with the descriptor
\* ProductXml in it and a copy of the descriptor under another name.
ProductDir == <<"/d">>

ProductXml == <<"/d/product.xml">>

ProductCopy == <<"/d/copy.xml">>

\* CPLFormCIFilename(pszFilename, "product.xml", NULL) on the directory
FormProductFilename(dir) == IF dir = ProductDir THEN ProductXml ELSE dir \o <<"/product.xml">>

\* The part of a name from index i on
Rest(str, i) == SubSeq(str, i, Len(str))

\* A variant that compares the tag letter by letter, case included.
SubdatasetName_ExactCase(name) ==
    LET afterLayer == Rest(name, Len(szLayerCalibration) + 2)
        StartsWith(str, prefix) ==
            Len(str) >= Len(prefix) /\ SubSeq(str, 1, Len(prefix)) = prefix
        eCalib == IF StartsWith(afterLayer, szBETA0) THEN "Beta0"
                  ELSE IF StartsWith(afterLayer, szSIGMA0) THEN "Sigma0"
                  ELSE IF StartsWith(afterLayer, szGAMMA) THEN "Gamma"
                  ELSE IF StartsWith(afterLayer, szUNCALIB) THEN "Uncalib"
                  ELSE "None"
        colon == IF \E i \in 1..Len(afterLayer) : afterLayer[i] = ":"
                 THEN CHOOSE i \in 1..Len(afterLayer) :
                        afterLayer[i] = ":" /\ \A j \in 1..(i - 1) : afterLayer[j] # ":"
                 ELSE Len(afterLayer) + 1
    IN  [eCalib |-> eCalib, pszFilename |-> Rest(afterLayer, colon + 1)]

\* Open's handling of a name that starts with RCM_CALIB: the view and the
\* name of the descriptor that is left.
SubdatasetName(name) ==
    LET afterLayer == Rest(name, Len(szLayerCalibration) + 2)
        eCalib == IF STARTS_WITH_CI(afterLayer, szBETA0) THEN "Beta0"
                  ELSE IF STARTS_WITH_CI(afterLayer, szSIGMA0) THEN "Sigma0"
                  ELSE IF STARTS_WITH_CI(afterLayer, szGAMMA)
                            \/ STARTS_WITH_CI(afterLayer, szGAMMA0) THEN "Gamma"
                  ELSE IF STARTS_WITH_CI(afterLayer, szUNCALIB) THEN "Uncalib"
                  ELSE "None"
        colon == IF \E i \in 1..Len(afterLayer) : afterLayer[i] = ":"
                 THEN CHOOSE i \in 1..Len(afterLayer) :
                        afterLayer[i] = ":" /\ \A j \in 1..(i - 1) : afterLayer[j] # ":"
                 ELSE Len(afterLayer) + 1
    IN  [eCalib |-> eCalib, pszFilename |-> Rest(afterLayer, colon + 1)]

(***************************************************************************)
(* RCMDataset::Open                                                        *)
(***************************************************************************)
\* The view Open selects for a name, and the name of the descriptor.
CalibOfTag(name) ==
    IF STARTS_WITH_CI(name, FormatCalibration(NullStr, NullStr))
    THEN SubdatasetName(name)
    ELSE [eCalib |-> "None", pszFilename |-> name]

\* STARTS_WITH_CI(productType, "UNK" | "GCD" | "GCC") decides bCanCalib.
\* productType is the text of the element: SLC, GCD, UNK, and others.
SLC == <<"S", "L", "C">>

GCD == <<"G", "C", "D">>

GCC == <<"G", "C", "C">>

UNK == <<"U", "N", "K">>

CanCalib(productType) ==
    ~(STARTS_WITH_CI(productType, UNK) \/ STARTS_WITH_CI(productType, GCD)
        \/ STARTS_WITH_CI(productType, GCC))

\* The element type chosen from sampleType and bitsPerSample; "none" is the
\* unsupported configuration, on which Open deletes the dataset.
SampleDataType(sampleType, nBitsPerSample) ==
    IF sampleType = "Complex"
    THEN (IF nBitsPerSample = 32 THEN "CFloat32" ELSE "CInt16")
    ELSE IF nBitsPerSample = 32 /\ sampleType = "Magnitude Detected" THEN "Float32"
    ELSE IF nBitsPerSample = 16 /\ sampleType = "Magnitude Detected" THEN "UInt16"
    ELSE "none"

\* The scan of the <ipdf> nodes: bIsNITF, the NITF entry, the pole and file
\* lists, and imageBandFileCount.
RECURSIVE ScanIpdf(_, _, _)
ScanIpdf(ipdf, i, acc) ==
    IF i > Len(ipdf) THEN acc
    ELSE LET e == ipdf[i]
             counted == [acc EXCEPT !.imageBandFileCount = @ + 1]
         IN  IF e.ext = "ntf"
             THEN [counted EXCEPT !.bIsNITF = TRUE, !.nitf = i]
             ELSE IF e.pole = ""
             THEN ScanIpdf(ipdf, i + 1, counted)
             ELSE ScanIpdf(ipdf, i + 1,
                    [counted EXCEPT !.imageBandList = Append(@, e.pole),
                                    !.imageBandFileList = Append(@, i)])

IpdfScan(ipdf) ==
    ScanIpdf(ipdf, 1, [bIsNITF |-> FALSE, nitf |-> 0, imageBandList |-> <<>>,
                       imageBandFileList |-> <<>>, imageBandFileCount |-> 0])

\* CPLStringList::FindString: the first index holding the string, 0 if none.
FindString(list, str) ==
    IF \E k \in 1..Len(list) : list[k] = str
    THEN CHOOSE k \in 1..Len(list) :
            list[k] = str /\ \A m \in 1..(k - 1) : list[m] # str
    ELSE 0

\* The LUT and noise-file names Open carries from one polarization to the
\* next (pszSigma0LUT, pszBeta0LUT, pszGammaLUT, pszNoiseLevelsValues): each
\* is NULL (set = FALSE) until an entry of the descriptor assigns it.
NullName == [set |-> FALSE, lut |-> NoLut]

RECURSIVE ScanLookupTables(_, _, _, _)
ScanLookupTables(entries, i, pszPole, names) ==
    IF i > Len(entries) THEN names
    ELSE LET e == entries[i]
             hit == [set |-> TRUE, lut |-> e.lut]
         IN  IF e.pole = "" \/ e.type = "" \/ e.pole # pszPole \/ ~e.valid
             THEN ScanLookupTables(entries, i + 1, pszPole, names)
             ELSE ScanLookupTables(entries, i + 1, pszPole,
                    CASE e.type = "Beta Nought" -> [names EXCEPT !.beta = hit]
                      [] e.type = "Sigma Nought" -> [names EXCEPT !.sigma = hit]
                      [] e.type = "Gamma" -> [names EXCEPT !.gamma = hit]
                      [] OTHER -> names)

ScanNoiseLevels(entries, pszPole, names) ==
    IF \E i \in 1..Len(entries) :
          entries[i].pole = pszPole /\ entries[i].valid
    THEN [names EXCEPT !.noise = TRUE]
    ELSE names

\* Undefined calls met while a calibrated band is built: fmt is the outcome
\* of sprintf("%s", <int>), nul the outcome of CPLFormFilename(pszPath, NULL,
\* NULL), whose basename must not be NULL: a fault, or an empty basename.
UBOutcomes == [fmt : BandNumberOutcomes, nul : {"fault", "empty"}]

NoDS == [status |-> "none", reason |-> "", eCalib |-> "None",
         nRasterXSize |-> 0, nRasterYSize |-> 0, isComplexData |-> FALSE,
         eDataType |-> "none", bands |-> <<>>, md |-> {},
         description |-> <<>>, subdatasets |-> {},
         bHaveGeoTransform |-> FALSE, adfGeoTransform |-> <<>>,
         handles |-> <<>>]

FailedDS(why) == [NoDS EXCEPT !.status = "failed", !.reason = why]

CrashedDS(why) == [NoDS EXCEPT !.status = "crashed", !.reason = why]

\* RCMRasterBand::RCMRasterBand
RCMRasterBand(nBandIn, eDataTypeIn, pszPole, fid, poBandFile, bTwoBandComplex, isOneFilePerPol, isNITF) ==
    [kind |-> "raw", pole |-> pszPole, eDataType |-> eDataTypeIn,
     fid |-> fid, file |-> poBandFile, nBand |-> nBandIn,
     srcBand |-> IF isOneFilePerPol THEN 1 ELSE nBandIn,
     twoBandComplex |-> bTwoBandComplex, isOneFilePerPol |-> isOneFilePerPol,
     isNITF |-> isNITF, m_eCalib |-> "Uncalib", m_eType |-> "none",
     m_eOriginalType |-> "none", m_nfTable |-> NullTable, hasTable |-> FALSE,
     m_nTableSize |-> 0, m_nfOffset |-> 0]

\* (A variant of CalibReportedType that goes by the original type.)
CalibReportedType_ByOriginal(eType, eOriginalType) ==
    IF eOriginalType \in ComplexTypes THEN "CFloat32" ELSE "Float32"

\* The element type a calibrated band reports, from the eType it is given.
CalibReportedType(eType, eOriginalType) ==
    IF eType = "CInt16" \/ eType = "CFloat32" THEN "CFloat32" ELSE "Float32"

\* RCMCalibRasterBand::RCMCalibRasterBand, with the result of its ReadLUT.
RCMCalibRasterBand(nBandIn, pszPolarization, eType, fid, poBandDataset, eCalib, lutRead, eOriginalType) ==
    [kind |-> "calib", pole |-> pszPolarization,
     eDataType |-> CalibReportedType(eType, eOriginalType),
     fid |-> fid, file |-> poBandDataset, nBand |-> nBandIn, srcBand |-> 1,
     twoBandComplex |-> FALSE, isOneFilePerPol |-> FALSE, isNITF |-> FALSE,
     m_eCalib |-> eCalib, m_eType |-> eType, m_eOriginalType |-> eOriginalType,
     m_nfTable |-> lutRead.m_nfTable, hasTable |-> lutRead.hasTable,
     m_nTableSize |-> lutRead.m_nTableSize, m_nfOffset |-> lutRead.m_nfOffset]

\* The image-file handles GDALOpen returned during Open, in the order of
\* the calls: the image file, the number of the band that keeps the handle
\* (0 when no band does) and the times GDALClose was called on it.
Handle(fid, band) == [fid |-> fid, band |-> band, closes |-> 0]

\* (A variant of GDALClose that leaves the handle open.)
GDALClose_Skip(h) == h

GDALClose(h) == [h EXCEPT !.closes = @ + 1]

\* RCMDataset::CloseDependentDatasets: every band is deleted, and the
\* destructor of a band closes the handle the band keeps.
CloseDependentDatasets(bands, handles) ==
    [i \in 1..Len(handles) |->
        IF \E k \in 1..Len(bands) : handles[i].band = k
        THEN GDALClose(handles[i]) ELSE handles[i]]

\* (A variant of BandFileUsable that takes every file.)
BandFileUsable_Always(f) == TRUE

\* GDALOpen yields a file with at least one band; otherwise Open skips the
\* polarization.
BandFileUsable(f) == f.opens /\ f.count # 0

\* One turn of the loop over the polarizations (the body of the for loop).
\* st carries what the loop keeps between turns.
OpenPole(w, scan, eCalib, ub, iPoleInx, st) ==
    LET pszPole == w.polarizations[iPoleInx]
        names == IF CanCalib(w.productType)
                 THEN ScanLookupTables(w.luts, 1, pszPole,
                         ScanNoiseLevels(w.noise, pszPole, st.names))
                 ELSE st.names
        pos  == FindString(scan.imageBandList, pszPole)
        fid  == IF scan.bIsNITF THEN scan.nitf
                ELSE IF pos = 0 THEN 0 ELSE scan.imageBandFileList[pos]
        st1  == [st EXCEPT !.names = names]
    IN
    IF fid = 0 THEN [st1 EXCEPT !.status = "failed", !.reason = "pole"]
    ELSE
    LET poBandFile == w.ipdf[fid].file
        eDataType  == IF poBandFile.t1 = "CFloat32" THEN "CFloat32"
                      ELSE st.eDataType
        b          == checkBandFileMappingRCM(eDataType, poBandFile, scan.bIsNITF)
        isOneFilePerPol == (Len(w.polarizations) = scan.imageBandFileCount)
        bandNum    == Len(st.bands) + 1
        st2        == [st1 EXCEPT !.eDataType = eDataType]
    IN
    IF ~poBandFile.opens THEN st1
    ELSE IF ~BandFileUsable(poBandFile)
    THEN [st1 EXCEPT !.handles = Append(@, GDALClose(Handle(fid, 0)))]
    ELSE IF b = "BANDERROR"
    THEN [st2 EXCEPT !.status = "failed", !.reason = "banderror",
                     !.handles = Append(@, GDALClose(Handle(fid, 0)))]
    ELSE IF eCalib \in {"None", "Uncalib"}
    THEN IF (IF isOneFilePerPol THEN 1 ELSE bandNum) > poBandFile.count
         THEN \* GetRasterBand returns NULL and GetBlockSize is called on it
              [st2 EXCEPT !.status = "crashed", !.reason = "nullband",
                          !.handles = Append(@, Handle(fid, 0))]
         ELSE [st2 EXCEPT !.bands = Append(@,
                  RCMRasterBand(bandNum, eDataType, pszPole, fid, poBandFile,
                                b = "TWOBANDCOMPLEX", isOneFilePerPol,
                                scan.bIsNITF)),
                          !.handles = Append(@, Handle(fid, bandNum))]
    ELSE
    LET pszLUT == CASE eCalib = "Sigma0" -> names.sigma
                    [] eCalib = "Beta0" -> names.beta
                    [] eCalib = "Gamma" -> names.gamma
        lutRead == ReadLUT(pszLUT.lut, w.samplesPerLine, st.md, ub.fmt)
        eType  == IF st.isComplexData THEN "Float32" ELSE eDataType
    IN
    IF (~pszLUT.set \/ ~names.noise) /\ ub.nul = "fault"
    THEN [st2 EXCEPT !.status = "crashed", !.reason = "nullname",
                     !.handles = Append(@, Handle(fid, 0))]
    ELSE IF ub.fmt = "fault"
    THEN [st2 EXCEPT !.status = "crashed", !.reason = "sprintf",
                     !.handles = Append(@, Handle(fid, 0))]
    ELSE IF ~names.noise
    THEN \* ReadNoiseLevels: no file of that name, CPLParseXMLFile and
         \* CPLGetXMLNode return NULL, and psChild is read through it
         [st2 EXCEPT !.status = "crashed", !.reason = "nullnode",
                     !.handles = Append(@, Handle(fid, 0))]
    ELSE [st2 EXCEPT !.md = lutRead.md,
                     !.bands = Append(@,
                        RCMCalibRasterBand(bandNum, pszPole, eType, fid,
                            poBandFile, eCalib, lutRead, eDataType)),
                     !.handles = Append(@, Handle(fid, bandNum))]

RECURSIVE OpenLoop(_, _, _, _, _, _)
OpenLoop(w, scan, eCalib, ub, iPoleInx, st) ==
    IF iPoleInx > Len(w.polarizations) \/ st.status # "building" THEN st
    ELSE OpenLoop(w, scan, eCalib, ub, iPoleInx + 1,
                  OpenPole(w, scan, eCalib, ub, iPoleInx, st))

(***************************************************************************)
(* The XML trees CPLParseXMLFile returned during Open, and how many times  *)
(* each was passed to CPLDestroyXMLNode.  owner is "function" for a tree   *)
(* only the parsing function knows, "dataset" for psProduct once the       *)
(* dataset keeps it.                                                       *)
(***************************************************************************)
XmlTree(of, owner, released) == [of |-> of, owner |-> owner, released |-> released]

\* IsValidXMLFile: the CPLXMLTreeCloser releases the tree at the return.
IsValidXMLFile_Trees(of) == <<XmlTree(of, "function", 1)>>

\* ReadLUT: the three early returns leave psLUT alone; the end of the
\* function destroys it.  A file that cannot be parsed gives no tree.
ReadLUT_Trees(lut, nRasterXSize) ==
    IF lut = NoLut THEN <<>>
    ELSE IF lut.numberOfValues <= 0 THEN <<XmlTree("lut", "function", 0)>>
    ELSE IF lut.stepSize <= 0 /\ lut.pixelFirstLutValue <= 0
    THEN <<XmlTree("lut", "function", 0)>>
    ELSE IF Abs(lut.stepSize) * Abs(lut.numberOfValues) < nRasterXSize
    THEN <<XmlTree("lut", "function", 0)>>
    ELSE <<XmlTree("lut", "function", 1)>>

\* ReadNoiseLevels: psNoiseLevels is never destroyed.
ReadNoiseLevels_Trees == <<XmlTree("noiseLevels", "function", 0)>>

\* The incidence-angle file in Open: the probe by IsValidXMLFile and, when
\* it parses, psIncidenceAngle, which is never destroyed.
IncidenceAngle_Trees(valid) ==
    IF valid
    THEN IsValidXMLFile_Trees("incidenceAngles")
           \o <<XmlTree("incidenceAngles", "function", 0)>>
    ELSE <<>>

\* The trees of the loop over the polarizations: those of the constructor
\* of every calibrated band the loop made.
RECURSIVE XmlLoop(_, _, _, _, _, _, _)
XmlLoop(w, scan, eCalib, ub, iPoleInx, st, trees) ==
    IF iPoleInx > Len(w.polarizations) \/ st.status # "building" THEN trees
    ELSE LET nx == OpenPole(w, scan, eCalib, ub, iPoleInx, st)
             made == Len(nx.bands) > Len(st.bands) /\ eCalib \notin {"None", "Uncalib"}
             pszLUT == CASE eCalib = "Sigma0" -> nx.names.sigma
                         [] eCalib = "Beta0" -> nx.names.beta
                         [] OTHER -> nx.names.gamma
         IN  XmlLoop(w, scan, eCalib, ub, iPoleInx + 1, nx,
                     IF made
                     THEN trees \o ReadLUT_Trees(pszLUT.lut, w.samplesPerLine)
                                \o ReadNoiseLevels_Trees
                     ELSE trees)

\* The trees of one call of Open that returned d: psProduct is destroyed by
\* Open on the returns before the dataset exists and by the destructor of
\* the dataset on the later ones, and kept by the dataset Open returns.
Open_Trees(w, name, ub, angles, d) ==
    LET eCalib == CalibOfTag(name).eCalib
        st0 == [status |-> "building", reason |-> "",
                eDataType |-> SampleDataType(w.sampleType, w.bitsPerSample),
                isComplexData |-> (w.sampleType = "Complex"),
                names |-> [sigma |-> NullName, beta |-> NullName,
                           gamma |-> NullName, noise |-> FALSE],
                bands |-> <<>>, md |-> {}, handles |-> <<>>]
    IN  IF d.status = "failed" /\ d.reason \in {"identify", "descriptor"} THEN <<>>
        ELSE IF d.status = "failed"
                  /\ d.reason \in {"entries", "geometry", "unsupported", "polarizations"}
        THEN <<XmlTree("product", "function", 1)>>
        ELSE <<XmlTree("product", IF d.status = "open" THEN "dataset" ELSE "function",
                       IF d.status = "open" THEN 0 ELSE 1)>>
               \o IncidenceAngle_Trees(angles)
               \o XmlLoop(w, IpdfScan(w.ipdf), eCalib, ub, 1, st0, <<>>)

\* ~RCMDataset: CPLDestroyXMLNode(psProduct)
DestroyProduct(trees) ==
    [k \in 1..Len(trees) |->
        IF trees[k].owner = "dataset"
        THEN [trees[k] EXCEPT !.released = @ + 1] ELSE trees[k]]

\* Exact fractions for the doubles of the geotransform
Q(n, d) == IF d < 0 THEN [n |-> 0 - n, d |-> 0 - d] ELSE [n |-> n, d |-> d]

QAdd(a, b) == Q(a.n * b.d + b.n * a.d, a.d * b.d)

QSub(a, b) == Q(a.n * b.d - b.n * a.d, a.d * b.d)

QMul(a, b) == Q(a.n * b.n, a.d * b.d)

QAbs(a) == Q(Abs(a.n), a.d)

QGreater(a, b) == a.n * b.d > b.n * a.d

\* geographicInformation.mapProjection of the descriptor: absent, or with
\* its four text items and, when positioningInformation is there, the map
\* coordinates <<easting, northing>> of the four corners.
NoMapProjection ==
    [mapProjection |-> FALSE, mapProjectionDescriptor |-> "UNK",
     mapProjectionOrientation |-> "UNK", resamplingKernel |-> "UNK",
     satelliteHeading |-> "UNK", positioningInformation |-> FALSE,
     upperLeftCorner |-> <<0, 0>>, upperRightCorner |-> <<0, 0>>,
     lowerLeftCorner |-> <<0, 0>>, lowerRightCorner |-> <<0, 0>>]

\* The four SetMetadataItem calls made when mapProjection is there
MapProjectionItems(md, geo) ==
    IF ~geo.mapProjection THEN md
    ELSE SetMetadataItem(
           SetMetadataItem(
             SetMetadataItem(
               SetMetadataItem(md, "MAP_PROJECTION_DESCRIPTOR", <<>>,
                               <<geo.mapProjectionDescriptor>>),
               "MAP_PROJECTION_ORIENTATION", <<>>, <<geo.mapProjectionOrientation>>),
             "RESAMPLING_KERNEL", <<>>, <<geo.resamplingKernel>>),
           "SATELLITE_HEADING", <<>>, <<geo.satelliteHeading>>)

\* adfGeoTransform as the constructor leaves it
DefaultGeoTransform == <<Q(0, 1), Q(1, 1), Q(0, 1), Q(0, 1), Q(0, 1), Q(1, 1)>>

\* adfGeoTransform (index k + 1 for adfGeoTransform[k]) from the corners
CornerTransform(geo, nRasterXSize, nRasterYSize) ==
    LET tl_x == Q(geo.upperLeftCorner[1], 1)
        tl_y == Q(geo.upperLeftCorner[2], 1)
        bl_x == Q(geo.lowerLeftCorner[1], 1)
        bl_y == Q(geo.lowerLeftCorner[2], 1)
        tr_x == Q(geo.upperRightCorner[1], 1)
        tr_y == Q(geo.upperRightCorner[2], 1)
        half == Q(1, 2)
        g1 == QMul(QSub(tr_x, tl_x), Q(1, nRasterXSize - 1))
        g4 == QMul(QSub(tr_y, tl_y), Q(1, nRasterXSize - 1))
        g2 == QMul(QSub(bl_x, tl_x), Q(1, nRasterYSize - 1))
        g5 == QMul(QSub(bl_y, tl_y), Q(1, nRasterYSize - 1))
        g0 == QSub(QSub(tl_x, QMul(half, g1)), QMul(half, g2))
        g3 == QSub(QSub(tl_y, QMul(half, g4)), QMul(half, g5))
    IN  <<g0, g1, g2, g3, g4, g5>>

\* The test of the bottom right pixel: TRUE when the corner is further from
\* the transformed pixel than the leeway.
CornersInconsistent(geo, gt, nRasterXSize, nRasterYSize) ==
    LET br_x == Q(geo.lowerRightCorner[1], 1)
        br_y == Q(geo.lowerRightCorner[2], 1)
        px == Q(2 * nRasterXSize - 1, 2)
        py == Q(2 * nRasterYSize - 1, 2)
        testx == QAdd(QAdd(gt[1], QMul(gt[2], px)), QMul(gt[3], py))
        testy == QAdd(QAdd(gt[4], QMul(gt[5], px)), QMul(gt[6], py))
    IN  \/ QGreater(QAbs(QSub(testx, br_x)), QAbs(QMul(Q(1, 4), QAdd(gt[2], gt[3]))))
        \/ QGreater(QAbs(QSub(testy, br_y)), QAbs(QMul(Q(1, 4), QAdd(gt[5], gt[6]))))

\* (A variant that takes every transform computed from the corners as good.)
GeoTransform_NoCornerTest(geo, nRasterXSize, nRasterYSize) ==
    IF geo.mapProjection /\ geo.positioningInformation
    THEN [adfGeoTransform |-> CornerTransform(geo, nRasterXSize, nRasterYSize),
          bHaveGeoTransform |-> TRUE]
    ELSE [adfGeoTransform |-> DefaultGeoTransform, bHaveGeoTransform |-> FALSE]

\* The geotransform part of Open: adfGeoTransform and bHaveGeoTransform
GeoTransform(geo, nRasterXSize, nRasterYSize) ==
    IF geo.mapProjection /\ geo.positioningInformation
    THEN LET gt == CornerTransform(geo, nRasterXSize, nRasterYSize)
         IN  [adfGeoTransform |-> gt,
              bHaveGeoTransform |->
                  ~CornersInconsistent(geo, gt, nRasterXSize, nRasterYSize)]
    ELSE [adfGeoTransform |-> DefaultGeoTransform, bHaveGeoTransform |-> FALSE]

\* RCMDataset::GetGeoTransform
GetGeoTransform(dataset) ==
    [padfTransform |-> dataset.adfGeoTransform,
     eErr |-> IF dataset.bHaveGeoTransform THEN "CE_None" ELSE "CE_Failure"]

\* (A variant that refuses only the dimensions that are not positive.)
NonSaneDimensions_NotPositive(nRasterXSize, nRasterYSize) ==
    nRasterXSize <= 0 \/ nRasterYSize <= 0

\* The test of the raster dimensions read from the descriptor
NonSaneDimensions(nRasterXSize, nRasterYSize) ==
    nRasterXSize <= 1 \/ nRasterYSize <= 1

\* What Identify sees of a name: the product directory, its descriptor, the
\* copy of the descriptor, or anything else.
OpenInfoOf(name) ==
    LET isXml == name \in {ProductXml, ProductCopy} IN
    [pszFilename |-> name,
     prefix |-> STARTS_WITH_CI(name, FormatCalibration(NullStr, NullStr)),
     bIsDirectory |-> name = ProductDir,
     root |-> IF name = ProductDir THEN "rcm" ELSE "absent",
     meta |-> "absent",
     nameEnds |-> name = ProductXml, basename |-> name = ProductXml,
     nHeaderBytes |-> IF isXml THEN HeaderMin ELSE 0,
     hdrRcm |-> isXml, hdrProduct |-> isXml,
     desc |-> IF isXml THEN "rcm" ELSE "absent"]

\* A variant that keeps the list whatever view was selected.
SubDatasets_KeepForView(names, eCalib, osMDFilename) ==
    (IF names.sigma.set
     THEN {[k |-> 2, name |-> FormatCalibration(szSIGMA0, osMDFilename)]} ELSE {})
    \cup (IF names.beta.set
          THEN {[k |-> 3, name |-> FormatCalibration(szBETA0, osMDFilename)]} ELSE {})
    \cup (IF names.gamma.set
          THEN {[k |-> 4, name |-> FormatCalibration(szGAMMA, osMDFilename)]} ELSE {})
    \cup (IF names.sigma.set \/ names.beta.set \/ names.gamma.set
          THEN {[k |-> 1, name |-> FormatCalibration(szUNCALIB, osMDFilename)]} ELSE {})

\* The SUBDATASETS list at the end of Open: entries 2, 3 and 4 were set when
\* a LUT entry of that type was met, entry 1 is added to a list that exists
\* when no view was selected, and the list is dropped otherwise.
SubDatasets(names, eCalib, osMDFilename) ==
    LET fromLuts ==
            (IF names.sigma.set
             THEN {[k |-> 2, name |-> FormatCalibration(szSIGMA0, osMDFilename)]} ELSE {})
            \cup (IF names.beta.set
                  THEN {[k |-> 3, name |-> FormatCalibration(szBETA0, osMDFilename)]} ELSE {})
            \cup (IF names.gamma.set
                  THEN {[k |-> 4, name |-> FormatCalibration(szGAMMA, osMDFilename)]} ELSE {})
    IN  IF fromLuts # {} /\ eCalib = "None"
        THEN fromLuts \cup {[k |-> 1, name |-> FormatCalibration(szUNCALIB, osMDFilename)]}
        ELSE {}

\* A variant that describes every dataset by the descriptor's name alone.
Description_PathOnly(eCalib, osMDFilename) == osMDFilename

\* SetDescription(osDescription)
Description(eCalib, osMDFilename) ==
    CASE eCalib = "Sigma0" -> FormatCalibration(szSIGMA0, osMDFilename)
      [] eCalib = "Beta0" -> FormatCalibration(szBETA0, osMDFilename)
      [] eCalib = "Gamma" -> FormatCalibration(szGAMMA, osMDFilename)
      [] eCalib = "Uncalib" -> FormatCalibration(szUNCALIB, osMDFilename)
      [] OTHER -> osMDFilename

\* RCMDataset::Open: the dataset returned, or a failed or faulted Open.
Open(w, name, ub) ==
    LET parsed == CalibOfTag(name)
        eCalib == parsed.eCalib
        pszFilename == parsed.pszFilename
        osMDFilename == IF pszFilename = ProductDir
                        THEN FormProductFilename(pszFilename) ELSE pszFilename
        eDataType == SampleDataType(w.sampleType, w.bitsPerSample)
        st0 == [status |-> "building", reason |-> "", eDataType |-> eDataType,
                isComplexData |-> (w.sampleType = "Complex"),
                names |-> [sigma |-> NullName, beta |-> NullName,
                           gamma |-> NullName, noise |-> FALSE],
                bands |-> <<>>, md |-> {}, handles |-> <<>>]
        st == OpenLoop(w, IpdfScan(w.ipdf), eCalib, ub, 1, st0)
    IN  IF ~Identify(OpenInfoOf(name)) THEN FailedDS("identify")
        ELSE IF osMDFilename \notin {ProductXml, ProductCopy} THEN FailedDS("descriptor")
        ELSE IF w.numberOfEntries # 1 THEN FailedDS("entries")
        ELSE IF NonSaneDimensions(w.samplesPerLine, w.numLines) THEN FailedDS("geometry")
        ELSE IF eDataType = "none" THEN FailedDS("unsupported")
        ELSE IF Len(w.polarizations) = 0 THEN FailedDS("polarizations")
        ELSE IF st.status = "failed"
        THEN [FailedDS(st.reason) EXCEPT
                 !.handles = CloseDependentDatasets(st.bands, st.handles)]
        ELSE IF st.status = "crashed"
        THEN [CrashedDS(st.reason) EXCEPT !.handles = st.handles]
        ELSE [status |-> "open", reason |-> "", eCalib |-> eCalib,
              nRasterXSize |-> w.samplesPerLine, nRasterYSize |-> w.numLines,
              isComplexData |-> st.isComplexData, eDataType |-> st.eDataType,
              bands |-> st.bands,
              md |-> MapProjectionItems(st.md, w.geo),
              description |-> Description(eCalib, osMDFilename),
              subdatasets |-> SubDatasets(st.names, eCalib, osMDFilename),
              bHaveGeoTransform |->
                  GeoTransform(w.geo, w.samplesPerLine, w.numLines).bHaveGeoTransform,
              adfGeoTransform |->
                  GeoTransform(w.geo, w.samplesPerLine, w.numLines).adfGeoTransform,
              handles |-> st.handles]

(***************************************************************************)
(* Memory and GDALDataset::RasterIO as the block reads use it.             *)
(* A buffer is a sequence of cells (cell x of the code is buf[x + 1]); a cell *)
(* is                                                                      *)
(* one scalar of the pointer type the code reads the buffer through.       *)
(*   k = "val"   the number n / d                                          *)
(*   k = "stale" memory nobody wrote (malloc, or the caller's block)       *)
(*   k = "junk"  a value the code does not determine: half of a wider      *)
(*               scalar, or the result of arithmetic on stale memory       *)
(***************************************************************************)
Val(n, d) == [k |-> "val", n |-> n, d |-> d]

Stale == [k |-> "stale", n |-> 0, d |-> 1]

Junk == [k |-> "junk", n |-> 0, d |-> 1]

Zero == Val(0, 1)

Buffer(nCells, c) == [x \in 1..nCells |-> c]

\* GDALGetDataTypeSize(t) / 8
GDALGetDataTypeSizeBytes(t) ==
    CASE t = "Byte" -> 1
      [] t \in {"UInt16", "Int16"} -> 2
      [] t \in {"UInt32", "Int32", "Float32", "CInt16"} -> 4
      [] t \in {"Float64", "CInt32", "CFloat32"} -> 8
      [] t = "CFloat64" -> 16

Components(t) == IF GDALDataTypeIsComplex(t) THEN 2 ELSE 1

\* The sample of source band b of image file fid at (row, col): the content
\* of the files, distinct at every place (odd real parts, even imaginary
\* parts), with (3, 4) at the first pixel of the first band of the first
\* file.  A real band has im = 0.
Sample(fid, t, b, row, col) ==
    LET v == col + 4 * row + 16 * (b - 1) + 64 * (fid - 1)
    IN  [re |-> 3 + 2 * v, im |-> IF GDALDataTypeIsComplex(t) THEN 4 + 2 * v ELSE 0]

BandType(file, b) == IF b = 2 THEN file.t2 ELSE file.t1

\* GDALDataset::RasterIO(GF_Read, ...) with panBandMap NULL: bands
\* 1..nBandCount are converted to eBufType and stored at
\* b*nBandSpace + row*nLineSpace + col*nPixelSpace (bytes).  unit is the
\* size of the scalar the caller reads the buffer through.  Stores that land
\* on the same bytes are resolved by the order of the copy: band by band
\* ("band"), or line by line with the bands of one line in turn ("line").
\* The call fails, leaving the buffer alone, when nBandCount exceeds the
\* bands of the file.
CopyOrders == {"band", "line"}

RasterIO(fid, file, nXOff, nYOff, nXSize, nYSize, buf, unit, eBufType, nBandCount, nPixelSpace, nLineSpace, nBandSpace, order) ==
    LET compBytes == GDALGetDataTypeSizeBytes(eBufType) \div Components(eBufType)
        cellsPerComp == compBytes \div unit
        nComp  == Components(eBufType)
        \* the stores: <<band, row, col, component, half>> and the cell hit
        Stores == { <<b, i, j, c, h>> : b \in 1..nBandCount, i \in 0..(nYSize - 1),
                      j \in 0..(nXSize - 1), c \in 0..(nComp - 1),
                      h \in 0..(cellsPerComp - 1) }
        CellOf(s) == ((s[1] - 1) * nBandSpace + s[2] * nLineSpace
                         + s[3] * nPixelSpace) \div unit
                      + s[4] * cellsPerComp + s[5]
        Key(s) == IF order = "band"
                  THEN ((s[1] * 64 + s[2]) * 64 + s[3]) * 4 + s[4]
                  ELSE ((s[2] * 64 + s[1]) * 64 + s[3]) * 4 + s[4]
        Stored(s) ==
            LET smp == Sample(fid, BandType(file, s[1]), s[1], nYOff + s[2], nXOff + s[3])
            IN  IF cellsPerComp > 1 THEN Junk
                ELSE IF s[4] = 0 THEN Val(smp.re, 1) ELSE Val(smp.im, 1)
        Hits(x) == { s \in Stores : CellOf(s) = x }
        Last(x) == CHOOSE s \in Hits(x) : \A o \in Hits(x) : Key(o) <= Key(s)
        nCells == Len(buf)
    IN  IF nBandCount > file.count
        THEN [eErr |-> "CE_Failure", buf |-> buf, overflow |-> FALSE]
        ELSE [eErr |-> "CE_None",
              buf |-> [x \in 1..nCells |->
                         IF Hits(x - 1) = {} THEN buf[x] ELSE Stored(Last(x - 1))],
              overflow |-> \E s \in Stores : CellOf(s) >= nCells]

\* GDALRasterBand::RasterIO(GF_Read, ...) on band srcBand of the file: the
\* band is converted to eBufType and stored at row*nLineSpace +
\* col*nPixelSpace (bytes); a pixel spacing of 0 stands for the size of
\* eBufType.
BandRasterIO(fid, file, srcBand, nXOff, nYOff, nXSize, nYSize, buf, unit, eBufType, nPixelSpace, nLineSpace) ==
    LET compBytes == GDALGetDataTypeSizeBytes(eBufType) \div Components(eBufType)
        cellsPerComp == compBytes \div unit
        nComp == Components(eBufType)
        pixelSpace == IF nPixelSpace = 0 THEN GDALGetDataTypeSizeBytes(eBufType)
                      ELSE nPixelSpace
        Stores == { <<i, j, c, h>> : i \in 0..(nYSize - 1), j \in 0..(nXSize - 1),
                      c \in 0..(nComp - 1), h \in 0..(cellsPerComp - 1) }
        CellOf(s) == (s[1] * nLineSpace + s[2] * pixelSpace) \div unit
                        + s[3] * cellsPerComp + s[4]
        Stored(s) ==
            LET smp == Sample(fid, BandType(file, srcBand), srcBand, nYOff + s[1], nXOff + s[2])
            IN  IF cellsPerComp > 1 THEN Junk
                ELSE IF s[3] = 0 THEN Val(smp.re, 1) ELSE Val(smp.im, 1)
        nCells == Len(buf)
    IN  IF srcBand > file.count
        THEN [eErr |-> "CE_Failure", buf |-> buf, overflow |-> FALSE]
        ELSE [eErr |-> "CE_None",
              buf |-> [x \in 1..nCells |->
                         IF \E s \in Stores : CellOf(s) = x - 1
                         THEN Stored(CHOOSE s \in Stores : CellOf(s) = x - 1)
                         ELSE buf[x]],
              overflow |-> \E s \in Stores : CellOf(s) >= nCells]

(***************************************************************************)
(* RCMRasterBand::IReadBlock.  pImage is the caller's block buffer, of     *)
(* nBlockXSize * nBlockYSize elements of the band's type, seen as the      *)
(* scalars the type is made of.                                            *)
(***************************************************************************)
IReadBlock(band, isComplexData, nRasterXSize, nRasterYSize, nBlockXOff, nBlockYOff, order) ==
    LET clipY == (nBlockYOff + 1) * BlockYSize > nRasterYSize
        clipX == (nBlockXOff + 1) * BlockXSize > nRasterXSize
        nRequestYSize == IF clipY THEN nRasterYSize - nBlockYOff * BlockYSize
                         ELSE BlockYSize
        nRequestXSize == IF clipX THEN nRasterXSize - nBlockXOff * BlockXSize
                         ELSE BlockXSize
        dataTypeSize == GDALGetDataTypeSizeBytes(band.eDataType)
        bandFileType == band.file.t1
        bandFileSize == GDALGetDataTypeSizeBytes(bandFileType)
        unit == dataTypeSize \div Components(band.eDataType)
        pImage == Buffer(Components(band.eDataType) * BlockXSize * BlockYSize,
                         IF clipX \/ clipY THEN Zero ELSE Stale)
        Result(io) ==
            [eErr |-> io.eErr, pImage |-> io.buf,
             ub |-> IF io.overflow THEN {"heap-overflow"} ELSE {},
             nRequestXSize |-> nRequestXSize, nRequestYSize |-> nRequestYSize]
        FromFile ==
            RasterIO(band.fid, band.file, nBlockXOff * BlockXSize,
                     nBlockYOff * BlockYSize, nRequestXSize, nRequestYSize,
                     pImage, unit, bandFileType, 2, dataTypeSize,
                     dataTypeSize * BlockXSize, bandFileSize, order)
        FromBand ==
            BandRasterIO(band.fid, band.file, band.srcBand, nBlockXOff * BlockXSize,
                         nBlockYOff * BlockYSize, nRequestXSize, nRequestYSize,
                         pImage, unit, band.eDataType, 0, dataTypeSize * BlockXSize)
    IN  IF band.twoBandComplex /\ ~band.isNITF THEN Result(FromFile)
        ELSE IF band.twoBandComplex /\ band.isNITF THEN Result(FromBand)
        ELSE IF isComplexData THEN Result(FromFile)
        ELSE IF bandFileType = band.eDataType THEN Result(FromBand)
        ELSE \* CPLAssert(FALSE); return CE_Failure
             [eErr |-> "CE_Failure", pImage |-> pImage, ub |-> {"assert"},
              nRequestXSize |-> nRequestXSize, nRequestYSize |-> nRequestYSize]

(***************************************************************************)
(* RCMCalibRasterBand::IReadBlock                                          *)
(***************************************************************************)
\* m_nfTable[c] as the loops read it.  A NULL table and an index past the
\* allocation are undefined reads: the value is not determined.
LutRead(band, c) ==
    IF ~band.hasTable \/ c >= Len(band.m_nfTable) THEN Junk
    ELSE IF band.m_nfTable[c + 1] = Undetermined THEN Junk
    ELSE Val(band.m_nfTable[c + 1], 1)

LutFault(band, c) ==
    IF ~band.hasTable THEN {"null-lut"}
    ELSE IF c >= Len(band.m_nfTable) THEN {"lut-overrun"}
    ELSE {}

\* digitalValue / (lutValue * lutValue), digitalValue = real*real + img*img
ComplexCalib(real, img, lutValue) ==
    IF real.k = "val" /\ img.k = "val" /\ lutValue.k = "val"
    THEN Val(real.n * real.n * img.d * img.d + img.n * img.n * real.d * real.d,
             real.d * real.d * img.d * img.d * lutValue.n * lutValue.n)
    ELSE Junk

\* ((digitalValue * digitalValue) + m_nfOffset) / A
DetectedCalib(digitalValue, nfOffset, A) ==
    IF digitalValue.k = "val" /\ A.k = "val"
    THEN Val(digitalValue.n * digitalValue.n + nfOffset * digitalValue.d * digitalValue.d,
             digitalValue.d * digitalValue.d * A.n)
    ELSE Junk

\* The loop over the requested window: tmp is the buffer the digital values
\* are read from, pImage the block the calibrated values are stored into
\* at nTruePixOff = i * nBlockXSize + j.
CalibrateLoop(band, tmp, pImage, nBlockXOff, nRequestXSize, nRequestYSize, isComplex) ==
    LET Pix == { <<i, j>> : i \in 0..(nRequestYSize - 1), j \in 0..(nRequestXSize - 1) }
        Value(i, j) ==
            LET lut == LutRead(band, nBlockXOff * BlockXSize + j)
            IN  IF isComplex
                THEN ComplexCalib(tmp[2 * (i * BlockXSize) + j * 2 + 1],
                                  tmp[2 * (i * BlockXSize) + j * 2 + 2], lut)
                ELSE DetectedCalib(tmp[i * BlockXSize + j + 1], band.m_nfOffset, lut)
    IN  [pImage |-> [x \in 1..Len(pImage) |->
                        IF \E p \in Pix : p[1] * BlockXSize + p[2] = x - 1
                        THEN LET p == CHOOSE q \in Pix : q[1] * BlockXSize + q[2] = x - 1
                             IN  Value(p[1], p[2])
                        ELSE pImage[x]],
         ub |-> UNION { LutFault(band, nBlockXOff * BlockXSize + p[2]) : p \in Pix }]

\* The whole of IReadBlock.  pImage is the caller's block buffer, of
\* nBlockXSize * nBlockYSize elements of the reported type, seen as floats.
\* The result is eErr, the block and the undefined operations gone through.
\* (GDALSwapWords after the one-band CInt16 read swaps bytes of pImage, which
\* holds zeros or stale bytes there and is overwritten afterwards.)
CalibIReadBlock(band, nRasterXSize, nRasterYSize, nBlockXOff, nBlockYOff, order) ==
    LET clipY == (nBlockYOff + 1) * BlockYSize > nRasterYSize
        clipX == (nBlockXOff + 1) * BlockXSize > nRasterXSize
        nRequestYSize == IF clipY THEN nRasterYSize - nBlockYOff * BlockYSize
                         ELSE BlockYSize
        nRequestXSize == IF clipX THEN nRasterXSize - nBlockXOff * BlockXSize
                         ELSE BlockXSize
        nFloats == (GDALGetDataTypeSizeBytes(band.eDataType) \div 4)
                      * BlockXSize * BlockYSize
        pImage == Buffer(nFloats, IF clipX \/ clipY THEN Zero ELSE Stale)
        Read(buf, unit, eBufType, nBandCount, nPixelSpace, nLineSpace, nBandSpace) ==
            RasterIO(band.fid, band.file, nBlockXOff * BlockXSize,
                     nBlockYOff * BlockYSize, nRequestXSize, nRequestYSize,
                     buf, unit, eBufType, nBandCount, nPixelSpace, nLineSpace,
                     nBandSpace, order)
        Finish(io, isComplex, inPlace) ==
            LET c == CalibrateLoop(band, io.buf, IF inPlace THEN io.buf ELSE pImage,
                                   nBlockXOff, nRequestXSize, nRequestYSize, isComplex)
            IN  [eErr |-> io.eErr, pImage |-> c.pImage,
                 ub |-> c.ub \cup (IF io.overflow THEN {"heap-overflow"} ELSE {}),
                 nRequestXSize |-> nRequestXSize, nRequestYSize |-> nRequestYSize]
        t == band.m_eOriginalType
    IN  IF t = "CInt16"
        THEN LET tmp == Buffer(2 * BlockXSize * BlockYSize, Stale)
             IN  IF band.file.count = 2
                 THEN Finish(Read(tmp, 2, t, 2, 4, BlockXSize * 4, 4), TRUE, FALSE)
                 ELSE Finish(Read(tmp, 2, t, 1, 4, BlockXSize * 4, 0), TRUE, FALSE)
        ELSE IF t = "CFloat32" \/ t = "CFloat64"
        THEN LET dataTypeSize == GDALGetDataTypeSizeBytes(t)
                 tmp == Buffer((2 * BlockXSize * BlockYSize * dataTypeSize) \div 4, Stale)
             IN  Finish(Read(tmp, 4, t, 2, dataTypeSize, BlockXSize * dataTypeSize,
                             dataTypeSize), TRUE, FALSE)
        ELSE IF t = "Float32"
        THEN Finish(Read(pImage, 4, "Float32", 1, 4, BlockXSize * 4, 0), FALSE, TRUE)
        ELSE IF t = "Float64"
        THEN Finish(Read(pImage, 4, "Float64", 1, 8, BlockXSize * 8, 0), FALSE, TRUE)
        ELSE IF t = "UInt16"
        THEN Finish(Read(Buffer(BlockXSize * BlockYSize, Stale), 2, "UInt16",
                         1, 2, BlockXSize * 2, 0), FALSE, FALSE)
        ELSE IF t = "Byte"
        THEN Finish(Read(Buffer(BlockXSize * BlockYSize, Stale), 1, "Byte",
                         1, 1, BlockXSize, 0), FALSE, FALSE)
        ELSE \* CPLAssert(FALSE); return CE_Failure
             [eErr |-> "CE_Failure", pImage |-> pImage, ub |-> {"assert"},
              nRequestXSize |-> nRequestXSize, nRequestYSize |-> nRequestYSize]

(***************************************************************************)
(* RCMCalibRasterBand::SetPartialLUT                                       *)
(***************************************************************************)
\* GetLUT(i) on a NULL m_nfTable is an undefined read: a fault, or values
\* that are not determined.
NullReadOutcomes == {"fault", "junk"}

SetPartialLUT(band, md, pixel_offset_in, pixel_width_in, fmt, deref) ==
    LET pixel_offset == IF pixel_offset_in < 0 THEN 0 ELSE pixel_offset_in
        pixel_width  == IF (pixel_offset + pixel_width_in) > band.m_nTableSize - 1
                        THEN band.m_nTableSize - pixel_offset - 1
                        ELSE pixel_width_in
        GetLUT(i)    == IF band.hasTable THEN band.m_nfTable[i + 1] ELSE Undetermined
        nfTableBuffer == [j \in 1..pixel_width |-> GetLUT(pixel_offset + j - 1)]
        bandNumber   == BandNumberText(fmt)
        same         == [status |-> "ok", band |-> band, md |-> md]
    IN  IF band.kind = "raw" THEN same
        ELSE IF ~(pixel_offset < band.m_nTableSize) THEN same
        ELSE IF ~(pixel_width > 0) THEN same
        ELSE IF ~band.hasTable /\ deref = "fault"
        THEN [status |-> "nullptr", band |-> band, md |-> md]
        ELSE IF fmt = "fault"
        THEN [status |-> "sprintf", band |-> band, md |-> md]
        ELSE [status |-> "ok",
              band |-> [band EXCEPT !.m_nfTable = nfTableBuffer,
                                    !.hasTable = TRUE,
                                    !.m_nTableSize = pixel_width],
              md |-> SetMetadataItem(
                       SetMetadataItem(md, "LUT_GAINS_", bandNumber, <<"gains">>),
                       "LUT_SIZE_", bandNumber, FormatD(pixel_width))]

\* The last steps of SetPartialLUT one by one.  CPLFree(m_nfTable): the
\* pointer stays, the memory it names is no longer the band's.
SetPartialLUT_Free(band) ==
    [band EXCEPT !.m_nfTable = [k \in 1..Len(@) |-> Undetermined]]

\* m_nTableSize = pixel_width
SetPartialLUT_Size(band, pixel_width) == [band EXCEPT !.m_nTableSize = pixel_width]

\* (A variant of the last step that leaves the freed table in place.)
SetPartialLUT_Fill_Skip(band, nfTableBuffer) == band

\* m_nfTable = CPLMalloc(...); memset; memcpy from nfTableBuffer
SetPartialLUT_Fill(band, nfTableBuffer) ==
    [band EXCEPT !.m_nfTable = nfTableBuffer, !.hasTable = TRUE]

\* m_nfTable names memory that was freed.
TableFreed(band) ==
    /\ band.hasTable /\ Len(band.m_nfTable) > 0
    /\ \A k \in 1..Len(band.m_nfTable) : band.m_nfTable[k] = Undetermined

(***************************************************************************)
(* The products the model opens                                            *)
(***************************************************************************)
SampleTypes == {"Complex", "Magnitude Detected", "Unknown"}

BitsPerSample == {8, 16, 32}

\* Image files met in products: none, empty, one band, an I/Q pair, a
\* mismatched pair, and one band per polarization.
BandFileChoices ==
    {NoFile, ImageFile(0, "Byte", "Byte")}
      \cup { ImageFile(1, t, t) : t \in {"UInt16", "Float32", "CInt16", "CFloat32"} }
      \cup { ImageFile(2, t, t) : t \in {"Int16", "Float32", "CFloat32"} }
      \cup { ImageFile(2, "Int16", "Float32") }
      \cup { ImageFile(MaxBands, t, t) : t \in {"UInt16", "CInt16", "CFloat32"} }

Tif(pole, f) == [ext |-> "tif", pole |-> pole, file |-> f]

Ntf(f) == [ext |-> "ntf", pole |-> "", file |-> f]

\* polarizations and <ipdf> nodes: one file per pole, a single NITF, and a
\* product whose second pole has no file.
Layouts ==
    { [polarizations |-> <<"HH">>, ipdf |-> <<Tif("HH", f)>>] : f \in BandFileChoices }
      \cup { [polarizations |-> <<"HH">>, ipdf |-> <<Ntf(f)>>] : f \in BandFileChoices }
      \cup { [polarizations |-> <<"HH", "HV">>, ipdf |-> <<Tif("HH", f), Tif("HV", g)>>] :
                f \in BandFileChoices, g \in BandFileChoices }
      \cup { [polarizations |-> <<"HH", "HV">>, ipdf |-> <<Ntf(f)>>] : f \in BandFileChoices }
      \cup { [polarizations |-> <<"HH", "HV">>, ipdf |-> <<Tif("HH", f)>>] :
                f \in BandFileChoices }

CalibTypes == <<"Sigma Nought", "Beta Nought", "Gamma">>

\* lookupTableFileName entries: one per pole and calibration type, all
\* naming a LUT file with the same content.
LutEntries(poles, lut) ==
    [k \in 1..(3 * Len(poles)) |->
        [pole |-> poles[((k - 1) \div 3) + 1], type |-> CalibTypes[((k - 1) % 3) + 1],
         valid |-> TRUE, lut |-> lut]]

NoiseEntries(poles) == [k \in 1..Len(poles) |-> [pole |-> poles[k], valid |-> TRUE]]

Product(st, bits, ptype, width, height, entries, layout, lut, withNoise) ==
    [sampleType |-> st, bitsPerSample |-> bits, productType |-> ptype,
     samplesPerLine |-> width, numLines |-> height, numberOfEntries |-> entries,
     polarizations |-> layout.polarizations, ipdf |-> layout.ipdf,
     luts |-> LutEntries(layout.polarizations, lut),
     noise |-> IF withNoise THEN NoiseEntries(layout.polarizations) ELSE <<>>,
     geo |-> NoMapProjection]

\* A LUT that covers the raster width, and one that does not.
FullLut == LutFile(1, 0, 2, MaxLutValues)

ShortLut == LutFile(0, 0, 1, 2)

\* The names Open is given: the descriptor itself and the four views, the
\* last one under both of its tags.
CalibTags == {szUNCALIB, szSIGMA0, szBETA0, szGAMMA, szGAMMA0}

OpenNames == {ProductXml} \cup { FormatCalibration(t, ProductXml) : t \in CalibTags }

Worlds ==
    { Product(st, bits, ptype, MaxWidth, MaxHeight, 1, layout, lut, TRUE) :
        st \in SampleTypes, bits \in BitsPerSample, ptype \in {SLC, GCD},
        layout \in Layouts, lut \in {FullLut, ShortLut} }

\* The products whose blocks the model reads through a calibrated view:
\* sampleType, bitsPerSample and the image file of the one polarization.
ReadSources ==
    { <<"Complex", 16, ImageFile(1, "CInt16", "CInt16")>>,
      <<"Complex", 16, ImageFile(2, "Int16", "Int16")>>,
      <<"Complex", 32, ImageFile(1, "CFloat32", "CFloat32")>>,
      <<"Complex", 32, ImageFile(2, "Float32", "Float32")>>,
      <<"Magnitude Detected", 16, ImageFile(1, "UInt16", "UInt16")>>,
      <<"Magnitude Detected", 32, ImageFile(1, "Float32", "Float32")>>,
      <<"Magnitude Detected", 32, ImageFile(1, "CFloat32", "CFloat32")>> }

ReadWorlds ==
    { Product(src[1], src[2], SLC, MaxWidth, MaxHeight, 1,
              [polarizations |-> <<"HH">>, ipdf |-> <<Tif("HH", src[3])>>],
              lut, TRUE) :
        src \in ReadSources, lut \in {FullLut, ShortLut, NoLut} }

ReadTags == {FormatCalibration(szSIGMA0, ProductXml)}

\* The products opened under many names: calibratable or not, with the
\* lookupTableFileName entries of some calibration types only, and one entry
\* whose file is not a valid XML file.
NameLutTypes ==
    { <<>>, <<"Sigma Nought">>, <<"Beta Nought", "Gamma">>, CalibTypes }

NameLuts(types, lut) ==
    [k \in 1..Len(types) |-> [pole |-> "HH", type |-> types[k], valid |-> TRUE, lut |-> lut]]

\* Product types that can and cannot be calibrated, the latter also in
\* lower case and with more letters after the first three.
NameProductTypes ==
    {SLC, <<"G", "R", "D">>, GCD, LowerCase(GCC), UNK \o <<"X">>}

NameWorlds ==
    { [Product("Complex", 32, ptype, MaxWidth, MaxHeight, 1,
               [polarizations |-> <<"HH">>,
                ipdf |-> <<Tif("HH", ImageFile(1, "CFloat32", "CFloat32"))>>],
               FullLut, TRUE)
         EXCEPT !.luts = NameLuts(types, FullLut)] :
        ptype \in NameProductTypes, types \in NameLutTypes }
      \cup { [Product("Complex", 32, SLC, MaxWidth, MaxHeight, 1,
                      [polarizations |-> <<"HH">>,
                       ipdf |-> <<Tif("HH", ImageFile(1, "CFloat32", "CFloat32"))>>],
                      FullLut, TRUE)
                EXCEPT !.luts = <<[pole |-> "HH", type |-> "Sigma Nought",
                                   valid |-> FALSE, lut |-> FullLut],
                                  [pole |-> "HH", type |-> "Beta Nought",
                                   valid |-> TRUE, lut |-> FullLut]>>] }

\* The names: a path alone, or RCM_CALIB, a tag and a path, in either letter
\* case, with the five tags, a tag with a letter too many, an unknown tag
\* and no tag; the path is the descriptor, its directory, the copy of the
\* descriptor or a file that does not exist; and a name with no path.
NamePaths == {ProductXml, ProductDir, ProductCopy, <<"/none">>}

NameTags ==
    {szSIGMA0, szBETA0, szGAMMA, szGAMMA0, szUNCALIB,
     LowerCase(szSIGMA0), LowerCase(szGAMMA0), LowerCase(szUNCALIB),
     szSIGMA0 \o <<"X">>, <<"X">>, <<>>}

Names ==
    NamePaths
      \cup { FormatCalibration(t, p) : t \in NameTags, p \in NamePaths }
      \cup { LowerCase(szLayerCalibration) \o szLayerSeparator \o t \o szLayerSeparator \o p :
                t \in NameTags, p \in NamePaths }
      \cup { FormatCalibration(szSIGMA0, NullStr) }

PartialOffsets == {0 - 1, 1}

PartialWidths == {MaxWidth}

NoRead == [status |-> "none", band |-> 0, nBlockXOff |-> 0, nBlockYOff |-> 0,
           eErr |-> "CE_None", pImage |-> <<>>, ub |-> {},
           nRequestXSize |-> 0, nRequestYSize |-> 0,
           pixel_offset |-> 0, pixel_width |-> 0]

IdleProbe == [dataType |-> "Byte", file |-> ImageFile(1, "Byte", "Byte"),
              isNITF |-> FALSE]

IdleInfo == [pszFilename |-> <<>>, prefix |-> FALSE, bIsDirectory |-> FALSE, root |-> "absent",
             meta |-> "absent", nameEnds |-> FALSE, basename |-> FALSE,
             nHeaderBytes |-> 0, hdrRcm |-> FALSE, hdrProduct |-> FALSE,
             desc |-> "absent"]

IdleWorld == Product("Unknown", 8, UNK, 0, 0, 0,
                     [polarizations |-> <<>>, ipdf |-> <<>>], NoLut, FALSE)

(***************************************************************************)
(* The band-file prober on its own                                         *)
(***************************************************************************)
InitProbe ==
    /\ probeIn \in [dataType : GDALDataTypes, file : BandFiles, isNITF : BOOLEAN]
    /\ probeOut = "none"
    /\ idIn = IdleInfo /\ idOut = "none"
    /\ world = IdleWorld /\ ds = NoDS /\ rd = NoRead

Probe ==
    /\ probeOut = "none"
    /\ probeOut' = checkBandFileMappingRCM(probeIn.dataType, probeIn.file,
                                           probeIn.isNITF)
    /\ UNCHANGED <<probeIn, idIn, idOut, world, ds, rd>>

SpecProbe == InitProbe /\ [][Probe]_vars

(***************************************************************************)
(* The LUT interpolator on its own                                         *)
(***************************************************************************)
MaxStep == 2

MaxPixelFirst == 3

MaxGain == 2

\* Lists of 1 to MaxLutValues gains, steps of either sign, and a first
\* pixel before, at and after column 0.
LutInputs ==
    UNION { [offset : {0}, pixelFirstLutValue : (0 - 1)..MaxPixelFirst,
             stepSize : ((0 - MaxStep)..MaxStep) \ {0}, numberOfValues : {n},
             gains : [1..n -> 0..MaxGain]] : n \in 1..MaxLutValues }

NoTable == [status |-> "none", m_nfTable |-> <<>>]

InitLut ==
    /\ world \in LutInputs
    /\ rd = NoTable /\ ds = NoDS
    /\ probeIn = IdleProbe /\ probeOut = "none"
    /\ idIn = IdleInfo /\ idOut = "none"

\* m_nfTable = InterpolateValues(papszLUTList, m_nTableSize, stepSize,
\* numberOfValues, pixelFirstLutValue)
DoInterpolateValues ==
    /\ rd.status = "none"
    /\ rd' = [status |-> "table",
              m_nfTable |-> InterpolateValues(world.gains,
                                Abs(world.stepSize) * Abs(world.numberOfValues),
                                world.stepSize, world.numberOfValues,
                                world.pixelFirstLutValue)]
    /\ UNCHANGED <<probeIn, probeOut, idIn, idOut, world, ds>>

SpecLut == InitLut /\ [][DoInterpolateValues]_vars

(***************************************************************************)
(* Identify on its own                                                     *)
(***************************************************************************)
InitIdentify ==
    /\ idIn \in OpenInfos
    /\ idOut = "none"
    /\ probeIn = IdleProbe /\ probeOut = "none"
    /\ world = IdleWorld /\ ds = NoDS /\ rd = NoRead

DoIdentify ==
    /\ idOut = "none"
    /\ idOut' = IF Identify(idIn) THEN "TRUE" ELSE "FALSE"
    /\ UNCHANGED <<idIn, probeIn, probeOut, world, ds, rd>>

SpecIdentify == InitIdentify /\ [][DoIdentify]_vars

(***************************************************************************)
(* Open and close of a product                                             *)
(***************************************************************************)
Init ==
    /\ world \in Worlds
    /\ ds = NoDS /\ rd = NoRead
    /\ probeIn = IdleProbe /\ probeOut = "none"
    /\ idIn = IdleInfo /\ idOut = "none"

OpenDS ==
    /\ ds.status = "none"
    /\ \E tag \in OpenNames, ub \in UBOutcomes :
          ds' = Open(world, tag, ub)
    /\ rd' = NoRead
    /\ UNCHANGED <<probeIn, probeOut, idIn, idOut, world>>

\* GDALClose of the dataset Open returned (the destructor of the dataset
\* deletes its bands); of a failed Open only the record of its handles is
\* left.
CloseDS ==
    /\ ds.status \in {"open", "failed"}
    /\ ds' = [NoDS EXCEPT !.handles = IF ds.status = "open"
                                      THEN CloseDependentDatasets(ds.bands, ds.handles)
                                      ELSE ds.handles]
    /\ rd' = NoRead
    /\ UNCHANGED <<probeIn, probeOut, idIn, idOut, world>>

Next == OpenDS \/ CloseDS

Spec == Init /\ [][Next]_vars

(***************************************************************************)
(* Products whose polarizations have LUT files of their own                *)
(***************************************************************************)
\* The LUT file of a polarization: the offset tells the files apart.
PoleLut(pole) == LutFile(IF pole = "HH" THEN 1 ELSE 2, 0, 2, MaxLutValues)

\* lookupTableFileName entries for the calibration types in hh for HH and
\* those in hv for HV, and noiseLevelFileName entries for the poles in nz.
PoleLutEntries(hh, hv) ==
    LET all == [k \in 1..6 |->
                  [pole |-> IF k <= 3 THEN "HH" ELSE "HV",
                   type |-> CalibTypes[((k - 1) % 3) + 1], valid |-> TRUE,
                   lut |-> PoleLut(IF k <= 3 THEN "HH" ELSE "HV")]]
        Listed(e) == e.type \in (IF e.pole = "HH" THEN hh ELSE hv)
    IN  SelectSeq(all, Listed)

PoleNoiseEntries(nz) ==
    LET all == <<[pole |-> "HH", valid |-> TRUE], [pole |-> "HV", valid |-> TRUE]>>
        Listed(e) == e.pole \in nz
    IN  SelectSeq(all, Listed)

PoleWorlds ==
    { [Product("Magnitude Detected", 16, SLC, MaxWidth, MaxHeight, 1,
               [polarizations |-> poles,
                ipdf |-> <<Tif("HH", ImageFile(1, "UInt16", "UInt16")),
                           Tif("HV", ImageFile(1, "UInt16", "UInt16"))>>],
               FullLut, TRUE)
         EXCEPT !.luts = PoleLutEntries(hh, hv), !.noise = PoleNoiseEntries(nz)] :
        poles \in {<<"HH", "HV">>, <<"HV", "HH">>},
        hh \in SUBSET {"Sigma Nought", "Beta Nought", "Gamma"},
        hv \in SUBSET {"Sigma Nought", "Beta Nought", "Gamma"},
        nz \in SUBSET {"HH", "HV"} }

InitPole ==
    /\ world \in PoleWorlds
    /\ ds = NoDS /\ rd = NoRead
    /\ probeIn = IdleProbe /\ probeOut = "none"
    /\ idIn = IdleInfo /\ idOut = "none"

NextPole == OpenDS \/ CloseDS

SpecPole == InitPole /\ [][NextPole]_vars

(***************************************************************************)
(* Open under the names a caller may pass                                  *)
(***************************************************************************)
InitName ==
    /\ world \in NameWorlds
    /\ idIn \in { OpenInfoOf(n) : n \in Names }
    /\ ds = NoDS /\ rd = NoRead /\ idOut = "none"
    /\ probeIn = IdleProbe /\ probeOut = "none"

OpenNamed ==
    /\ ds.status = "none"
    /\ \E ub \in UBOutcomes : ds' = Open(world, idIn.pszFilename, ub)
    /\ rd' = NoRead
    /\ UNCHANGED <<probeIn, probeOut, idIn, idOut, world>>

NextName == OpenNamed \/ CloseDS

SpecName == InitName /\ [][NextName]_vars

(***************************************************************************)
(* Block reads and LUT cropping on an open calibrated view                 *)
(***************************************************************************)
InitRead ==
    /\ world \in ReadWorlds
    /\ ds = NoDS /\ rd = NoRead
    /\ probeIn = IdleProbe /\ probeOut = "none"
    /\ idIn = IdleInfo /\ idOut = "none"

OpenView ==
    /\ ds.status = "none"
    /\ \E tag \in ReadTags, ub \in UBOutcomes :
          ds' = Open(world, tag, ub)
    /\ rd' = NoRead
    /\ UNCHANGED <<probeIn, probeOut, idIn, idOut, world>>

\* GetRasterBand(b)->ReadBlock(nBlockXOff, nBlockYOff, pImage) on a
\* calibrated band.
DoReadBlock ==
    /\ ds.status = "open"
    /\ \E b \in 1..Len(ds.bands), order \in CopyOrders,
          nBlockXOff \in 0..((ds.nRasterXSize - 1) \div BlockXSize),
          nBlockYOff \in 0..((ds.nRasterYSize - 1) \div BlockYSize) :
          /\ ds.bands[b].kind = "calib"
          /\ LET r == CalibIReadBlock(ds.bands[b], ds.nRasterXSize, ds.nRasterYSize,
                                      nBlockXOff, nBlockYOff, order)
             IN  rd' = [status |-> "done", band |-> b, nBlockXOff |-> nBlockXOff,
                        nBlockYOff |-> nBlockYOff, eErr |-> r.eErr,
                        pImage |-> r.pImage, ub |-> r.ub,
                        nRequestXSize |-> r.nRequestXSize,
                        nRequestYSize |-> r.nRequestYSize,
                        pixel_offset |-> 0, pixel_width |-> 0]
    /\ UNCHANGED <<probeIn, probeOut, idIn, idOut, world, ds>>

\* GetRasterBand(b)->SetPartialLUT(pixel_offset, pixel_width); rd keeps the
\* arguments of the call.
DoSetPartialLUT ==
    /\ ds.status = "open"
    /\ \E b \in 1..Len(ds.bands), pixel_offset \in PartialOffsets,
          pixel_width \in PartialWidths, fmt \in BandNumberOutcomes,
          deref \in NullReadOutcomes :
          LET r == SetPartialLUT(ds.bands[b], ds.md, pixel_offset, pixel_width,
                                 fmt, deref)
          IN  /\ ds' = IF r.status = "ok"
                       THEN [ds EXCEPT !.bands[b] = r.band, !.md = r.md]
                       ELSE [CrashedDS(r.status) EXCEPT !.handles = ds.handles]
              /\ rd' = [NoRead EXCEPT !.status = "lut", !.band = b,
                                      !.pixel_offset = pixel_offset,
                                      !.pixel_width = pixel_width]
    /\ UNCHANGED <<probeIn, probeOut, idIn, idOut, world>>

NextRead == OpenView \/ DoReadBlock \/ DoSetPartialLUT \/ CloseDS

SpecRead == InitRead /\ [][NextRead]_vars

(***************************************************************************)
(* The geotransform of products with and without corner coordinates        *)
(***************************************************************************)
\* Corners of a north-up raster, of a rotated one, and lower right corners
\* on the computed place, within the leeway, on its limit and beyond it.
GeoCorners ==
    { [NoMapProjection EXCEPT !.mapProjection = TRUE,
                              !.mapProjectionDescriptor = d,
                              !.positioningInformation = TRUE,
                              !.upperLeftCorner = <<0, 8>>,
                              !.upperRightCorner = tr,
                              !.lowerLeftCorner = bl,
                              !.lowerRightCorner = br] :
        d \in {"UTM", "UNK"}, tr \in {<<4, 8>>, <<4, 12>>},
        bl \in {<<0, 0>>, <<4, 4>>},
        br \in {<<4, 0>>, <<5, 0>>, <<4, 1>>, <<4, 2>>, <<8, 4>>, <<8, 8>>, <<9, 9>>} }

GeoInputs ==
    {NoMapProjection,
     [NoMapProjection EXCEPT !.mapProjection = TRUE, !.mapProjectionDescriptor = "UTM"]}
      \cup GeoCorners

GeoWorlds ==
    { [Product("Magnitude Detected", 16, SLC, width, MaxHeight, 1,
               [polarizations |-> <<"HH">>,
                ipdf |-> <<Tif("HH", ImageFile(1, "UInt16", "UInt16"))>>],
               FullLut, TRUE)
         EXCEPT !.geo = g] : width \in {MaxWidth - 1, MaxWidth}, g \in GeoInputs }

InitGeo ==
    /\ world \in GeoWorlds
    /\ ds = NoDS /\ rd = NoRead
    /\ probeIn = IdleProbe /\ probeOut = "none"
    /\ idIn = IdleInfo /\ idOut = "none"

OpenGeo ==
    /\ ds.status = "none"
    /\ \E ub \in UBOutcomes : ds' = Open(world, ProductXml, ub)
    /\ rd' = NoRead
    /\ UNCHANGED <<probeIn, probeOut, idIn, idOut, world>>

\* GetGeoTransform(padfTransform) on the dataset Open returned
DoGetGeoTransform ==
    /\ ds.status = "open"
    /\ LET r == GetGeoTransform(ds)
       IN  rd' = [NoRead EXCEPT !.status = "geo", !.eErr = r.eErr,
                                !.pImage = r.padfTransform]
    /\ UNCHANGED <<probeIn, probeOut, idIn, idOut, world, ds>>

NextGeo == OpenGeo \/ DoGetGeoTransform \/ CloseDS

SpecGeo == InitGeo /\ [][NextGeo]_vars

(***************************************************************************)
(* Open of descriptors with any dimensions and number of scene entries     *)
(***************************************************************************)
\* samplesPerLine and numLines from -1 (the value Open takes when the
\* element is missing) up, numberOfEntries from 0 (missing) to 2.
DimWorlds ==
    { Product(src[1], src[2], SLC, width, height, entries,
              [polarizations |-> <<"HH">>, ipdf |-> <<Tif("HH", src[3])>>],
              FullLut, TRUE) :
        src \in { <<"Complex", 16, ImageFile(1, "CInt16", "CInt16")>>,
                  <<"Magnitude Detected", 16, ImageFile(1, "UInt16", "UInt16")>> },
        width \in (0 - 1)..MaxWidth, height \in (0 - 1)..MaxHeight,
        entries \in 0..2 }

InitDim ==
    /\ world \in DimWorlds
    /\ ds = NoDS /\ rd = NoRead
    /\ probeIn = IdleProbe /\ probeOut = "none"
    /\ idIn = IdleInfo /\ idOut = "none"

OpenDim ==
    /\ ds.status = "none"
    /\ \E name \in {ProductXml, FormatCalibration(szSIGMA0, ProductXml)},
          ub \in UBOutcomes : ds' = Open(world, name, ub)
    /\ rd' = NoRead
    /\ UNCHANGED <<probeIn, probeOut, idIn, idOut, world>>

NextDim == OpenDim \/ CloseDS

SpecDim == InitDim /\ [][NextDim]_vars

(***************************************************************************)
(* Block reads on the raw and the calibrated bands of small products       *)
(***************************************************************************)
\* sampleType, bitsPerSample and the <ipdf> node of the one polarization
BlockSources ==
    { <<"Complex", 16, Tif("HH", ImageFile(1, "CInt16", "CInt16"))>>,
      <<"Complex", 16, Tif("HH", ImageFile(2, "Int16", "Int16"))>>,
      <<"Complex", 16, Ntf(ImageFile(2, "Int16", "Int16"))>>,
      <<"Complex", 16, Ntf(ImageFile(MaxBands, "CInt16", "CInt16"))>>,
      <<"Complex", 32, Tif("HH", ImageFile(2, "Float32", "Float32"))>>,
      <<"Magnitude Detected", 16, Tif("HH", ImageFile(1, "UInt16", "UInt16"))>>,
      <<"Magnitude Detected", 32, Tif("HH", ImageFile(1, "Float32", "Float32"))>> }

\* A LUT file with the gain 5 at every column of four, offset 0
ConstantLut == [LutFile(0, 0, 2, 2) EXCEPT !.gains = <<5, 5>>]

\* The product of four columns and one line whose image is a NITF file with
\* one CFloat32 band, and the same product with two lines.
LineProduct(height) ==
    Product("Complex", 32, SLC, 4, height, 1,
            [polarizations |-> <<"HH">>,
             ipdf |-> <<Ntf(ImageFile(1, "CFloat32", "CFloat32"))>>],
            ConstantLut, TRUE)

BlockWorlds ==
    { Product(src[1], src[2], SLC, MaxWidth, MaxHeight, 1,
              [polarizations |-> <<"HH">>, ipdf |-> <<src[3]>>], FullLut, TRUE) :
        src \in BlockSources }
      \cup {LineProduct(1), LineProduct(2)}

BlockNames == {ProductXml, FormatCalibration(szSIGMA0, ProductXml),
               FormatCalibration(szUNCALIB, ProductXml)}

InitBlock ==
    /\ world \in BlockWorlds
    /\ ds = NoDS /\ rd = NoRead
    /\ probeIn = IdleProbe /\ probeOut = "none"
    /\ idIn = IdleInfo /\ idOut = "none"

OpenBlockView ==
    /\ ds.status = "none"
    /\ \E name \in BlockNames, ub \in UBOutcomes : ds' = Open(world, name, ub)
    /\ rd' = NoRead
    /\ UNCHANGED <<probeIn, probeOut, idIn, idOut, world>>

\* GetRasterBand(b)->ReadBlock(nBlockXOff, nBlockYOff, pImage) on a band of
\* either class
DoIReadBlock ==
    /\ ds.status = "open"
    /\ \E b \in 1..Len(ds.bands), order \in CopyOrders,
          nBlockXOff \in 0..((ds.nRasterXSize - 1) \div BlockXSize),
          nBlockYOff \in 0..((ds.nRasterYSize - 1) \div BlockYSize) :
          LET r == IF ds.bands[b].kind = "calib"
                   THEN CalibIReadBlock(ds.bands[b], ds.nRasterXSize, ds.nRasterYSize,
                                        nBlockXOff, nBlockYOff, order)
                   ELSE IReadBlock(ds.bands[b], ds.isComplexData, ds.nRasterXSize,
                                   ds.nRasterYSize, nBlockXOff, nBlockYOff, order)
          IN  rd' = [status |-> "done", band |-> b, nBlockXOff |-> nBlockXOff,
                     nBlockYOff |-> nBlockYOff, eErr |-> r.eErr,
                     pImage |-> r.pImage, ub |-> r.ub,
                     nRequestXSize |-> r.nRequestXSize,
                     nRequestYSize |-> r.nRequestYSize,
                     pixel_offset |-> 0, pixel_width |-> 0]
    /\ UNCHANGED <<probeIn, probeOut, idIn, idOut, world, ds>>

NextBlock == OpenBlockView \/ DoIReadBlock \/ CloseDS

SpecBlock == InitBlock /\ [][NextBlock]_vars

(***************************************************************************)
(* Products with any list of <ipdf> nodes                                  *)
(***************************************************************************)
MaxIpdf == 3

\* <ipdf> nodes: a GeoTIFF of pole HH, of pole HV or without the pole
\* attribute, and a NITF; the file has one band or MaxBands bands.
IpdfNodes ==
    { Tif(pole, ImageFile(n, "UInt16", "UInt16")) :
        pole \in {"HH", "HV", ""}, n \in {1, MaxBands} }
      \cup { Ntf(ImageFile(n, "UInt16", "UInt16")) : n \in {1, MaxBands} }

PackWorlds ==
    { Product("Magnitude Detected", 16, SLC, MaxWidth, MaxHeight, 1,
              [polarizations |-> poles, ipdf |-> ipdf], FullLut, TRUE) :
        poles \in {<<"HH">>, <<"HH", "HV">>},
        ipdf \in UNION { [1..n -> IpdfNodes] : n \in 1..MaxIpdf } }

InitPack ==
    /\ world \in PackWorlds
    /\ ds = NoDS /\ rd = NoRead
    /\ probeIn = IdleProbe /\ probeOut = "none"
    /\ idIn = IdleInfo /\ idOut = "none"

NextPack == OpenBlockView \/ CloseDS

SpecPack == InitPack /\ [][NextPack]_vars

(***************************************************************************)
(* The XML trees of Open and of the destructor                             *)
(***************************************************************************)
\* LUT files: covering the width, too short, descending without a first
\* pixel, and one that cannot be parsed.
XmlLuts == {FullLut, ShortLut, LutFile(0, 0, 0 - 2, MaxLutValues), NoLut}

XmlWorlds ==
    { Product("Magnitude Detected", 16, ptype, MaxWidth, height, 1,
              [polarizations |-> poles,
               ipdf |-> <<Tif("HH", ImageFile(1, "UInt16", "UInt16"))>>],
              lut, withNoise) :
        ptype \in {SLC, GCD}, height \in {1, MaxHeight},
        poles \in {<<"HH">>, <<"HH", "HV">>}, lut \in XmlLuts,
        withNoise \in BOOLEAN }

NoTrees == [status |-> "none", trees |-> <<>>]

InitXml ==
    /\ world \in XmlWorlds
    /\ ds = NoDS /\ rd = NoTrees
    /\ probeIn = IdleProbe /\ probeOut = "none"
    /\ idIn = IdleInfo /\ idOut = "none"

\* Open; angles says whether the incidence-angle file of the product parses.
OpenXml ==
    /\ ds.status = "none"
    /\ \E name \in OpenNames \cup {<<"/none">>}, ub \in UBOutcomes, angles \in BOOLEAN :
          /\ ds' = Open(world, name, ub)
          /\ rd' = [status |-> "trees",
                    trees |-> Open_Trees(world, name, ub, angles, ds')]
    /\ UNCHANGED <<probeIn, probeOut, idIn, idOut, world>>

\* GDALClose of the dataset, or the caller dropping a failed Open.
CloseXml ==
    /\ ds.status \in {"open", "failed"}
    /\ ds' = [NoDS EXCEPT !.handles = IF ds.status = "open"
                                      THEN CloseDependentDatasets(ds.bands, ds.handles)
                                      ELSE ds.handles]
    /\ rd' = [status |-> "closed",
              trees |-> IF ds.status = "open" THEN DestroyProduct(rd.trees)
                        ELSE rd.trees]
    /\ UNCHANGED <<probeIn, probeOut, idIn, idOut, world>>

NextXml == OpenXml \/ CloseXml

SpecXml == InitXml /\ [][NextXml]_vars

(***************************************************************************)
(* SetPartialLUT and IReadBlock on one band from two threads.  rd.serial   *)
(* says whether the caller lets the one run only while the other is not    *)
(* running; rd.pc is the place SetPartialLUT has reached.                  *)
(***************************************************************************)
RaceWorlds ==
    { Product(src[1], src[2], SLC, MaxWidth, MaxHeight, 1,
              [polarizations |-> <<"HH">>, ipdf |-> <<Tif("HH", src[3])>>],
              FullLut, TRUE) :
        src \in { <<"Complex", 16, ImageFile(1, "CInt16", "CInt16")>>,
                  <<"Magnitude Detected", 16, ImageFile(1, "UInt16", "UInt16")>> } }

RaceOffsets == {0, 1}

RaceWidths == {MaxWidth - 1, MaxWidth}

NoRace(serial) ==
    [status |-> "none", serial |-> serial, pc |-> "idle", band |-> 0,
     pending |-> <<>>, pcAtRead |-> "idle", eErr |-> "CE_None", ub |-> {}]

InitRace ==
    /\ world \in RaceWorlds
    /\ ds = NoDS /\ rd \in { NoRace(serial) : serial \in BOOLEAN }
    /\ probeIn = IdleProbe /\ probeOut = "none"
    /\ idIn = IdleInfo /\ idOut = "none"

OpenRace ==
    /\ ds.status = "none"
    /\ \E ub \in UBOutcomes :
          ds' = Open(world, FormatCalibration(szSIGMA0, ProductXml), ub)
    /\ UNCHANGED <<probeIn, probeOut, idIn, idOut, world, rd>>

\* SetPartialLUT up to the two SetMetadataItem calls: the range is clamped,
\* copied to nfTableBuffer, and LUT_GAINS and LUT_SIZE are published.
PartialPublish ==
    /\ ds.status = "open" /\ rd.pc = "idle"
    /\ \E b \in 1..Len(ds.bands), pixel_offset \in RaceOffsets,
          pixel_width \in RaceWidths, fmt \in BandNumberOutcomes,
          deref \in NullReadOutcomes :
          LET r == SetPartialLUT(ds.bands[b], ds.md, pixel_offset, pixel_width,
                                 fmt, deref)
          IN  /\ r.band # ds.bands[b] \/ r.status # "ok"
              /\ ds' = IF r.status = "ok" THEN [ds EXCEPT !.md = r.md]
                       ELSE [CrashedDS(r.status) EXCEPT !.handles = ds.handles]
              /\ rd' = [rd EXCEPT !.pc = IF r.status = "ok" THEN "published" ELSE "idle",
                                  !.band = b, !.pending = r.band]
    /\ UNCHANGED <<probeIn, probeOut, idIn, idOut, world>>

PartialFree ==
    /\ ds.status = "open" /\ rd.pc = "published"
    /\ ds' = [ds EXCEPT !.bands[rd.band] = SetPartialLUT_Free(@)]
    /\ rd' = [rd EXCEPT !.pc = "freed"]
    /\ UNCHANGED <<probeIn, probeOut, idIn, idOut, world>>

PartialResize ==
    /\ ds.status = "open" /\ rd.pc = "freed"
    /\ ds' = [ds EXCEPT !.bands[rd.band] =
                            SetPartialLUT_Size(@, rd.pending.m_nTableSize)]
    /\ rd' = [rd EXCEPT !.pc = "sized"]
    /\ UNCHANGED <<probeIn, probeOut, idIn, idOut, world>>

PartialFill ==
    /\ ds.status = "open" /\ rd.pc = "sized"
    /\ ds' = [ds EXCEPT !.bands[rd.band] =
                            SetPartialLUT_Fill(@, rd.pending.m_nfTable)]
    /\ rd' = [rd EXCEPT !.pc = "idle"]
    /\ UNCHANGED <<probeIn, probeOut, idIn, idOut, world>>

\* A block read on the other thread; when the caller serialises the two it
\* runs only while SetPartialLUT is not running.
RaceReadBlock ==
    /\ ds.status = "open"
    /\ rd.serial => rd.pc = "idle"
    /\ \E b \in 1..Len(ds.bands), order \in CopyOrders,
          nBlockXOff \in 0..((ds.nRasterXSize - 1) \div BlockXSize),
          nBlockYOff \in 0..((ds.nRasterYSize - 1) \div BlockYSize) :
          LET r == CalibIReadBlock(ds.bands[b], ds.nRasterXSize, ds.nRasterYSize,
                                   nBlockXOff, nBlockYOff, order)
          IN  rd' = [rd EXCEPT !.status = "done", !.pcAtRead = rd.pc,
                               !.eErr = r.eErr,
                               !.ub = r.ub \cup (IF TableFreed(ds.bands[b])
                                                 THEN {"freed-lut"} ELSE {})]
    /\ UNCHANGED <<probeIn, probeOut, idIn, idOut, world, ds>>

NextRace ==
    OpenRace \/ PartialPublish \/ PartialFree \/ PartialResize \/ PartialFill
      \/ RaceReadBlock

SpecRace == InitRace /\ [][NextRace]_vars

(***************************************************************************)
(* Block reads on products of every sample family and image file           *)
(***************************************************************************)
DispatchWorlds ==
    { Product(st, bits, SLC, MaxWidth, MaxHeight, 1,
              [polarizations |-> <<"HH">>, ipdf |-> <<node>>], FullLut, TRUE) :
        st \in {"Complex", "Magnitude Detected"}, bits \in {16, 32},
        node \in { Tif("HH", f) : f \in BandFileChoices }
                   \cup { Ntf(f) : f \in BandFileChoices } }

InitDispatch ==
    /\ world \in DispatchWorlds
    /\ ds = NoDS /\ rd = NoRead
    /\ probeIn = IdleProbe /\ probeOut = "none"
    /\ idIn = IdleInfo /\ idOut = "none"

NextDispatch == OpenBlockView \/ DoIReadBlock \/ CloseDS

SpecDispatch == InitDispatch /\ [][NextDispatch]_vars

(***************************************************************************)
(* Properties of the band-file prober                                      *)
(***************************************************************************)
RealHalfOf(t) == CASE t = "CInt16" -> "Int16" [] t = "CInt32" -> "Int32"
                   [] t = "CFloat32" -> "Float32" [] t = "CFloat64" -> "Float64"
                   [] OTHER -> "none"

StraightRule(in) == in.file.count \in {1, 4} /\ in.file.t1 = in.dataType

TwoBandRule(in) ==
    /\ in.file.count = 2
    /\ in.file.t1 = in.file.t2
    /\ in.dataType \in ComplexTypes
    /\ in.file.t1 \in {RealHalfOf(in.dataType), in.dataType}

\* C8: for a file that is not NITF the prober answers STRAIGHT exactly when
\* the file has 1 or 4 bands and band 1 has the requested type,
\* TWOBANDCOMPLEX exactly when it has 2 bands of one type, the requested type
\* is complex and the band type is its real half or the complex type itself,
\* and BANDERROR in every other case.
ThmC8 ==
    (probeOut # "none" /\ ~probeIn.isNITF) =>
        /\ (probeOut = "STRAIGHT") <=> StraightRule(probeIn)
        /\ (probeOut = "TWOBANDCOMPLEX") <=> TwoBandRule(probeIn)
        /\ (probeOut = "BANDERROR") <=> (~StraightRule(probeIn) /\ ~TwoBandRule(probeIn))

\* C8 witness: a two-band Int16 GeoTIFF probed for CInt16 is TWOBANDCOMPLEX.
WitC8 ==
    /\ probeOut = "TWOBANDCOMPLEX" /\ ~probeIn.isNITF
    /\ probeIn.dataType = "CInt16" /\ probeIn.file.t1 = "Int16"

\* C9 as stated: for a NITF file the prober never answers BANDERROR.
OrigC9 == (probeOut # "none" /\ probeIn.isNITF) => probeOut # "BANDERROR"

\* C9 amended: for a NITF file the prober answers BANDERROR exactly when the
\* file has 2 bands of different types and the requested type is complex; in
\* every other case where neither rule matches it answers STRAIGHT.
ThmC9 ==
    (probeOut # "none" /\ probeIn.isNITF) =>
        LET mismatch == /\ probeIn.file.count = 2
                        /\ probeIn.dataType \in ComplexTypes
                        /\ probeIn.file.t1 # probeIn.file.t2
        IN  /\ (probeOut = "BANDERROR") <=> mismatch
            /\ (~mismatch /\ ~StraightRule(probeIn) /\ ~TwoBandRule(probeIn))
                  => probeOut = "STRAIGHT"

\* C9 witness: a NITF file with two bands of different types, probed for a
\* complex type, has been answered.
WitC9 ==
    /\ probeOut # "none" /\ probeIn.isNITF /\ probeIn.file.count = 2
    /\ probeIn.dataType = "CFloat32"
    /\ probeIn.file.t1 = "Float32" /\ probeIn.file.t2 = "Int16"

(***************************************************************************)
(* Properties of Identify                                                  *)
(***************************************************************************)
\* C6 as stated: Identify accepts exactly when the name has the subdataset
\* prefix, or is a directory holding product.xml or metadata/product.xml, or
\* has the basename product.xml, and in all three cases only when the
\* descriptor's root is <product> with an xmlns containing "rcm".
OrigC6 ==
    idOut # "none" =>
        ((idOut = "TRUE") <=>
            /\ \/ idIn.prefix
               \/ idIn.bIsDirectory /\ (idIn.root # "absent" \/ idIn.meta # "absent")
               \/ idIn.basename
            /\ IF idIn.bIsDirectory /\ ~idIn.prefix
               THEN idIn.root = "rcm" \/ idIn.meta = "rcm"
               ELSE idIn.desc = "rcm")

\* C6 amended: Identify accepts exactly when the name has the subdataset
\* prefix (nothing else is looked at); or it is a directory and the first
\* that exists of product.xml and metadata/product.xml has root <product>
\* with an xmlns containing "rcm"; or it is a file whose name ends in
\* "product.xml", with at least 100 header bytes that contain both "/rcm"
\* and "<product".
ThmC6 ==
    idOut # "none" =>
        ((idOut = "TRUE") <=>
            \/ idIn.prefix
            \/ /\ ~idIn.prefix /\ idIn.bIsDirectory
               /\ \/ idIn.root = "rcm"
                  \/ idIn.root = "absent" /\ idIn.meta = "rcm"
            \/ /\ ~idIn.prefix /\ ~idIn.bIsDirectory
               /\ idIn.nameEnds /\ idIn.nHeaderBytes >= 100
               /\ idIn.hdrRcm /\ idIn.hdrProduct)

\* C6 witness: a prefixed name whose descriptor is not an RCM product has
\* been accepted.
WitC6 == idOut = "TRUE" /\ idIn.prefix /\ idIn.desc = "nonrcm"

(***************************************************************************)
(* Properties of Open                                                      *)
(***************************************************************************)
\* The image file the descriptor gives a polarization: the NITF file when
\* there is one, else the file of the <ipdf> node with that pole.
PoleFile(w, p) ==
    IF \E k \in 1..Len(w.ipdf) : w.ipdf[k].ext = "ntf"
    THEN w.ipdf[CHOOSE k \in 1..Len(w.ipdf) : w.ipdf[k].ext = "ntf"].file
    ELSE IF \E k \in 1..Len(w.ipdf) : w.ipdf[k].pole = p
    THEN w.ipdf[CHOOSE k \in 1..Len(w.ipdf) : w.ipdf[k].pole = p].file
    ELSE NoFile

ViewKind(eCalib) == IF eCalib \in {"None", "Uncalib"} THEN "raw" ELSE "calib"

OrigC7 ==
    ds.status = "open" =>
        \/ world.sampleType = "Complex" /\ world.bitsPerSample = 32
              /\ ds.eDataType = "CFloat32"
        \/ world.sampleType = "Complex" /\ world.bitsPerSample = 16
              /\ ds.eDataType = "CInt16"
        \/ world.sampleType = "Magnitude Detected" /\ world.bitsPerSample = 32
              /\ ds.eDataType = "Float32"
        \/ world.sampleType = "Magnitude Detected" /\ world.bitsPerSample = 16
              /\ ds.eDataType = "UInt16"

\* The position of a band's polarization in the descriptor's list.
PoleIndex(w, p) == CHOOSE i \in 1..Len(w.polarizations) : w.polarizations[i] = p

RatEq(a, b) == a.k = "val" /\ b.k = "val" /\ a.n * b.d = b.n * a.d

\* The band's table has a determined gain for every column of the raster.
LutCovers(band) ==
    /\ band.hasTable
    /\ Len(band.m_nfTable) >= ds.nRasterXSize
    /\ \A c \in 1..Len(band.m_nfTable) : band.m_nfTable[c] # Undetermined

\* The I and Q of the source at (row, col): the two parts of the sample of a
\* complex band, or the samples of bands 1 and 2 of an I/Q pair.
SourceIQ(band, row, col) ==
    IF band.file.count = 2 /\ ~GDALDataTypeIsComplex(band.file.t1)
    THEN [re |-> Sample(band.fid, band.file.t1, 1, row, col).re,
          im |-> Sample(band.fid, band.file.t2, 2, row, col).re]
    ELSE Sample(band.fid, band.file.t1, 1, row, col)

ReadPixels ==
    { <<i, j>> : i \in 0..(rd.nRequestYSize - 1), j \in 0..(rd.nRequestXSize - 1) }

\* C1 as stated: a successful block read of a calibrated band whose original
\* type is complex (CInt16, CFloat32, CFloat64) stores at (i, j) the value
\* (re^2 + im^2) / LUT[c]^2 of the source sample, c = block_x * blk_w + j.
\* Stated for bands whose LUT covers the raster width.
OrigC1 ==
    (/\ rd.status = "done" /\ rd.eErr = "CE_None"
     /\ ds.bands[rd.band].m_eOriginalType \in {"CInt16", "CFloat32", "CFloat64"}
     /\ LutCovers(ds.bands[rd.band])) =>
        \A p \in ReadPixels :
            LET band == ds.bands[rd.band]
                c    == rd.nBlockXOff * BlockXSize + p[2]
                iq   == SourceIQ(band, rd.nBlockYOff * BlockYSize + p[1], c)
                lut  == band.m_nfTable[c + 1]
            IN  RatEq(rd.pImage[p[1] * BlockXSize + p[2] + 1],
                      Val(iq.re * iq.re + iq.im * iq.im, lut * lut))

\* C2 as stated: a block read of a calibrated band whose original type is
\* real (UInt16, Byte, Float32, Float64) stores at (i, j) the value
\* (d^2 + offset) / LUT[c] of the source sample d, c = block_x * blk_w + j.
OrigC2 ==
    (/\ rd.status = "done" /\ rd.eErr = "CE_None"
     /\ ds.bands[rd.band].m_eOriginalType \in {"UInt16", "Byte", "Float32", "Float64"}) =>
        \A p \in ReadPixels :
            LET band == ds.bands[rd.band]
                c    == rd.nBlockXOff * BlockXSize + p[2]
                d    == Sample(band.fid, band.file.t1, 1,
                               rd.nBlockYOff * BlockYSize + p[1], c).re
            IN  /\ LutCovers(band)
                /\ RatEq(rd.pImage[p[1] * BlockXSize + p[2] + 1],
                         Val(d * d + band.m_nfOffset, band.m_nfTable[c + 1]))

\* C3 as stated: on a dataset opened with a calibration view, after any
\* sequence of SetPartialLUT calls and reads, the LUT of every calibrated
\* band has at least as many entries as the raster is wide.
OrigC3 ==
    ds.status = "open" =>
        \A b \in 1..Len(ds.bands) :
            ds.bands[b].kind = "calib" => ds.bands[b].m_nTableSize >= ds.nRasterXSize

\* C4 as stated: for every calibrated band b the metadata item named
\* "LUT_SIZE_" followed by the decimal b exists and holds the current length
\* of the band's LUT, after Open and after any SetPartialLUT.
OrigC4 ==
    ds.status = "open" =>
        \A b \in 1..Len(ds.bands) :
            ds.bands[b].kind = "calib" =>
                \E m \in ds.md :
                    /\ m.name = "LUT_SIZE_"
                    /\ m.suffix = FormatD(b)
                    /\ m.value = FormatD(ds.bands[b].m_nTableSize)

\* C11 as stated: when a calibration view is requested and the LUT file of a
\* band has numberOfValues <= 0, or |stepSize| = 0, or |stepSize| *
\* |numberOfValues| < raster width, Open returns no dataset; no dataset
\* returned has a calibrated band without a loaded LUT table.
OrigC11 ==
    ds.status = "open" =>
        \A b \in 1..Len(ds.bands) :
            ds.bands[b].kind = "calib" =>
                /\ ds.bands[b].hasTable
                /\ ds.bands[b].m_nTableSize >= ds.nRasterXSize
                /\ \A k \in 1..Len(world.luts) :
                      (world.luts[k].pole = ds.bands[b].pole /\ world.luts[k].valid) =>
                          LET lut == world.luts[k].lut
                          IN  /\ lut.numberOfValues > 0
                              /\ Abs(lut.stepSize) # 0
                              /\ Abs(lut.stepSize) * Abs(lut.numberOfValues)
                                    >= world.samplesPerLine

\* C12 as stated: SetPartialLUT(offset, width) on a calibrated band with LUT
\* L of size S, o = max(offset, 0), w = min(width, S - 1 - o): if o < S and
\* w > 0 the LUT becomes the slice L[o .. o+w-1] and GetLUTsize() = w;
\* otherwise the LUT, its size and the metadata stay as they were; on a raw
\* band nothing changes.
OrigC12 ==
    [][(ds.status = "open" /\ rd'.status = "lut") =>
          LET b == rd'.band
              band == ds.bands[b]
              S == band.m_nTableSize
              o == IF rd'.pixel_offset < 0 THEN 0 ELSE rd'.pixel_offset
              w == IF rd'.pixel_width < S - 1 - o THEN rd'.pixel_width ELSE S - 1 - o
          IN  IF band.kind = "calib" /\ o < S /\ w > 0
              THEN /\ ds'.status = "open"
                   /\ band.hasTable
                   /\ ds'.bands[b].hasTable
                   /\ ds'.bands[b].m_nfTable = SubSeq(band.m_nfTable, o + 1, o + w)
                   /\ ds'.bands[b].m_nTableSize = w
              ELSE ds' = ds]_vars


(***************************************************************************)
(* Properties of the subdataset names                                      *)
(***************************************************************************)
UpperCase(str) == [i \in 1..Len(str) |-> ToUpper(str[i])]

\* The place of the second separator of a name RCM_CALIB:<tag>:<path>
SecondSeparator(name) ==
    LET from == Len(szLayerCalibration) + 2
    IN  IF \E i \in from..Len(name) : name[i] = ":"
        THEN CHOOSE i \in from..Len(name) :
                name[i] = ":" /\ \A j \in from..(i - 1) : name[j] # ":"
        ELSE Len(name) + 1

TagOf(name) == SubSeq(name, Len(szLayerCalibration) + 2, SecondSeparator(name) - 1)

PathOf(name) == SubSeq(name, SecondSeparator(name) + 1, Len(name))

FiveTags == {szSIGMA0, szBETA0, szGAMMA, szGAMMA0, szUNCALIB}

ViewOfTag(t) ==
    CASE t = szSIGMA0 -> "Sigma0" [] t = szBETA0 -> "Beta0"
      [] t = szGAMMA -> "Gamma" [] t = szGAMMA0 -> "Gamma"
      [] t = szUNCALIB -> "Uncalib" [] OTHER -> "None"

TagOfView(v) ==
    CASE v = "Sigma0" -> szSIGMA0 [] v = "Beta0" -> szBETA0
      [] v = "Gamma" -> szGAMMA [] v = "Uncalib" -> szUNCALIB [] OTHER -> <<>>

\* The descriptor file a path stands for
DescriptorUsed(path) == IF path = ProductDir THEN ProductXml ELSE path

\* The path of the name Open was given
PassedPath == IF idIn.prefix THEN PathOf(idIn.pszFilename) ELSE idIn.pszFilename

\* The calibration types for which the descriptor names a usable LUT file
AcceptedLutTypes ==
    IF CanCalib(world.productType)
    THEN { world.luts[i].type : i \in { j \in 1..Len(world.luts) :
              /\ world.luts[j].valid
              /\ \E p \in 1..Len(world.polarizations) :
                    world.polarizations[p] = world.luts[j].pole } }
    ELSE {}

SubdatasetEntry(k, tag) ==
    [k |-> k, name |-> FormatCalibration(tag, DescriptorUsed(PassedPath))]

\* C13 as stated: the dataset opened with no view publishes the four
\* subdatasets UNCALIB, SIGMA0, BETA0 and GAMMA as entries 1 to 4, and a
\* dataset opened with a view publishes none.
OrigC13 ==
    ds.status = "open" =>
        IF ds.eCalib = "None"
        THEN ds.subdatasets = {SubdatasetEntry(1, szUNCALIB), SubdatasetEntry(2, szSIGMA0),
                               SubdatasetEntry(3, szBETA0), SubdatasetEntry(4, szGAMMA)}
        ELSE ds.subdatasets = {}

\* C13, amended: a dataset opened with a view publishes no subdataset; one
\* opened with no view publishes entry 2 (SIGMA0), 3 (BETA0), 4 (GAMMA)
\* exactly when the product can be calibrated and its descriptor names a
\* valid LUT file of that type for one of its polarizations, and entry 1
\* (UNCALIB) exactly when it publishes one of the others; each name is
\* RCM_CALIB:<tag>:<descriptor file>.
ThmC13 ==
    ds.status = "open" =>
        IF ds.eCalib = "None"
        THEN ds.subdatasets =
               (IF "Sigma Nought" \in AcceptedLutTypes
                THEN {SubdatasetEntry(2, szSIGMA0)} ELSE {})
               \cup (IF "Beta Nought" \in AcceptedLutTypes
                     THEN {SubdatasetEntry(3, szBETA0)} ELSE {})
               \cup (IF "Gamma" \in AcceptedLutTypes
                     THEN {SubdatasetEntry(4, szGAMMA)} ELSE {})
               \cup (IF AcceptedLutTypes # {}
                     THEN {SubdatasetEntry(1, szUNCALIB)} ELSE {})
        ELSE ds.subdatasets = {}

WitC13 ==
    /\ ds.status = "open" /\ ds.eCalib = "None"
    /\ Cardinality(ds.subdatasets) = 3

OrigC15 ==
    (ds.status = "open" /\ idIn.prefix) =>
        /\ UpperCase(TagOf(idIn.pszFilename)) \in FiveTags
        /\ ds.eCalib = ViewOfTag(UpperCase(TagOf(idIn.pszFilename)))
        /\ ds.description[Len(ds.description)] = PassedPath[1]

\* C15, amended: a name RCM_CALIB:<tag>:<path>, in any letter case, opens
\* with the view of the first of BETA0, SIGMA0, GAMMA, UNCALIB that the tag
\* begins with (so the five tags select their views, and so does a tag with
\* more letters after one of them), and with no view when the tag begins
\* with none of them; the descriptor read is <path>, or product.xml in
\* <path> when <path> is a directory.
ThmC15 ==
    (ds.status = "open" /\ idIn.prefix) =>
        LET t == UpperCase(TagOf(idIn.pszFilename))
            Begins(tag) == Len(t) >= Len(tag) /\ SubSeq(t, 1, Len(tag)) = tag
        IN  /\ t \in FiveTags => ds.eCalib = ViewOfTag(t)
            /\ ds.eCalib = (IF Begins(szBETA0) THEN "Beta0"
                            ELSE IF Begins(szSIGMA0) THEN "Sigma0"
                            ELSE IF Begins(szGAMMA) THEN "Gamma"
                            ELSE IF Begins(szUNCALIB) THEN "Uncalib"
                            ELSE "None")
            /\ ds.description[Len(ds.description)] = DescriptorUsed(PassedPath)[1]

WitC15 ==
    /\ ds.status = "open" /\ idIn.prefix
    /\ TagOf(idIn.pszFilename) = LowerCase(szGAMMA0)
    /\ ds.eCalib = "Gamma"

(***************************************************************************)
(* Properties of the block reads at the raster's edges                     *)
(***************************************************************************)
\* The scalars of the block buffer one pixel is made of
CellsPerPixel == Len(rd.pImage) \div (BlockXSize * BlockYSize)

\* The pixel (row, col) of the block a cell of the buffer belongs to
CellRow(x) == ((x - 1) \div CellsPerPixel) \div BlockXSize

CellCol(x) == ((x - 1) \div CellsPerPixel) % BlockXSize

EdgeBlock ==
    \/ (rd.nBlockXOff + 1) * BlockXSize > ds.nRasterXSize
    \/ (rd.nBlockYOff + 1) * BlockYSize > ds.nRasterYSize

\* C16: after a successful read of a block that extends past the right or
\* the bottom edge of the raster, on a raw or a calibrated band, the request
\* was for width - block_x*blk_w columns and height - block_y*blk_h rows
\* (the block size where the block does not pass that edge), and every
\* position of the block outside that window holds zero.
OrigC16 ==
    (ds.status = "open" /\ rd.status = "done" /\ rd.eErr = "CE_None" /\ EdgeBlock) =>
        LET cols == IF (rd.nBlockXOff + 1) * BlockXSize > ds.nRasterXSize
                    THEN ds.nRasterXSize - rd.nBlockXOff * BlockXSize ELSE BlockXSize
            rows == IF (rd.nBlockYOff + 1) * BlockYSize > ds.nRasterYSize
                    THEN ds.nRasterYSize - rd.nBlockYOff * BlockYSize ELSE BlockYSize
        IN  /\ rd.nRequestXSize = cols /\ rd.nRequestYSize = rows
            /\ \A x \in 1..Len(rd.pImage) :
                  (CellRow(x) >= rows \/ CellCol(x) >= cols) => rd.pImage[x] = Zero

(***************************************************************************)
(* Properties of the geotransform                                          *)
(***************************************************************************)
\* The lower right corner of the descriptor against the place the other
\* three corners give it, tr + bl - tl: further away, on one axis, than a
\* quarter of the map units one pixel step along both raster axes covers.
\* (All terms are multiplied by 4 * (width - 1) * (height - 1).)
BeyondQuarterPixel ==
    LET g == world.geo
        wx == world.samplesPerLine - 1
        hy == world.numLines - 1
        Off(k) == g.upperRightCorner[k] + g.lowerLeftCorner[k]
                    - g.upperLeftCorner[k] - g.lowerRightCorner[k]
        Step(k) == (g.upperRightCorner[k] - g.upperLeftCorner[k]) * hy
                     + (g.lowerLeftCorner[k] - g.upperLeftCorner[k]) * wx
    IN  \E k \in {1, 2} : 4 * wx * hy * Abs(Off(k)) > Abs(Step(k))

HasItem(name) == \E m \in ds.md : m.name = name

\* C17: when the lower right corner of the descriptor disagrees with the
\* computed transform beyond the quarter-pixel leeway, Open still returns
\* the dataset, GetGeoTransform on it returns CE_Failure and the metadata
\* has MAP_PROJECTION_DESCRIPTOR; and GetGeoTransform returns CE_None only
\* when positioningInformation was there and the corner test passed.
ThmC17 ==
    /\ (ds.status # "none" /\ world.geo.mapProjection
           /\ world.geo.positioningInformation /\ BeyondQuarterPixel)
         => /\ ds.status = "open"
            /\ HasItem("MAP_PROJECTION_DESCRIPTOR")
            /\ rd.status = "geo" => rd.eErr = "CE_Failure"
    /\ (rd.status = "geo" /\ rd.eErr = "CE_None")
         => /\ world.geo.mapProjection /\ world.geo.positioningInformation
            /\ ~BeyondQuarterPixel

WitC17 ==
    /\ ds.status = "open" /\ rd.status = "geo" /\ rd.eErr = "CE_Failure"
    /\ world.geo.positioningInformation /\ BeyondQuarterPixel
    /\ HasItem("MAP_PROJECTION_DESCRIPTOR")

(***************************************************************************)
(* Properties of the image-file handles                                    *)
(***************************************************************************)
\* C18: every image-file handle opened in Open is closed exactly once: a
\* handle is never closed twice; while the dataset is open every band keeps
\* one handle of its own, still open, and a handle no band keeps (file with
\* no band) was closed in Open; after the dataset is destroyed or Open has
\* failed every handle has been closed.
ThmC18 ==
    /\ \A i \in 1..Len(ds.handles) : ds.handles[i].closes <= 1
    /\ ds.status = "open" =>
          /\ \A k \in 1..Len(ds.bands) :
                Cardinality({ i \in 1..Len(ds.handles) : ds.handles[i].band = k }) = 1
          /\ \A i \in 1..Len(ds.handles) :
                ds.handles[i].closes = (IF ds.handles[i].band = 0 THEN 1 ELSE 0)
    /\ ds.status \in {"none", "failed"} =>
          \A i \in 1..Len(ds.handles) : ds.handles[i].closes = 1

WitC18 ==
    /\ ds.status = "none" /\ Len(ds.handles) = 2
    /\ ds.handles[1].band = 0 /\ ds.handles[2].band = 1
    /\ \A i \in 1..Len(ds.handles) : ds.handles[i].closes = 1

(***************************************************************************)
(* Properties of the dimension and scene entry checks                      *)
(***************************************************************************)
\* C19: Open fails, leaving no dataset and no open image file, whenever
\* samplesPerLine <= 1 or numLines <= 1 and whenever numberOfEntries is not
\* 1; so a dataset Open returned has a width of at least 2, a height of at
\* least 2 and a descriptor with one scene entry.
ThmC19 ==
    /\ (ds.status \in {"open", "failed", "crashed"}
           /\ (world.samplesPerLine <= 1 \/ world.numLines <= 1
                  \/ world.numberOfEntries # 1))
         => ds.status = "failed" /\ ds.bands = <<>> /\ ds.handles = <<>>
    /\ ds.status = "open" =>
          /\ ds.nRasterXSize >= 2 /\ ds.nRasterYSize >= 2
          /\ ds.nRasterXSize = world.samplesPerLine
          /\ ds.nRasterYSize = world.numLines
          /\ world.numberOfEntries = 1

WitC19 ==
    /\ ds.status = "failed" /\ ds.reason = "geometry"
    /\ world.samplesPerLine = 1 /\ world.numLines = MaxHeight
    /\ world.numberOfEntries = 1

(***************************************************************************)
(* The product of one line                                                 *)
(***************************************************************************)
\* C20: the product with sampleType Complex, 32 bits, polarization HH, four
\* columns and one line, whose NITF image has one CFloat32 band with (3, 4)
\* at pixel (0, 0) and whose SIGMA0 LUT is 5 at every column with offset 0,
\* is opened by Open, and block (0, 0) of the band of its SIGMA0 view holds 1
\* at column 0.
OrigC20 ==
    world = LineProduct(1) =>
        /\ ds.status # "none" => ds.status = "open"
        /\ (ds.status = "open" /\ ds.eCalib = "Sigma0" /\ rd.status = "done"
               /\ rd.nBlockXOff = 0 /\ rd.nBlockYOff = 0)
             => rd.eErr = "CE_None" /\ RatEq(rd.pImage[1], Val(1, 1))

(***************************************************************************)
(* Properties of the later claims                                          *)
(***************************************************************************)
\* The first three letters of the product type are UNK, GCD or GCC, in any
\* letter case.
NotCalibratable(productType) ==
    /\ Len(productType) >= 3
    /\ UpperCase(SubSeq(productType, 1, 3)) \in {UNK, GCD, GCC}

\* C21: calibration is available exactly when the first three letters of the
\* product type are none of UNK, GCD, GCC in any letter case; for such a
\* product Open looks up no LUT or noise file, publishes no SIGMA0, BETA0 or
\* GAMMA subdataset and creates no calibrated band, a calibration view in
\* the name included; for every other product type a calibrated band has
\* the table of the LUT file the descriptor names.
OrigC21 ==
    (ds.status # "none" /\ NotCalibratable(world.productType)) =>
        /\ ds.status \in {"open", "failed"}
        /\ ds.status = "open" =>
              /\ ds.subdatasets = {}
              /\ \A b \in 1..Len(ds.bands) : ds.bands[b].kind = "raw"

\* Every scalar of the buffer a read filled is fixed by the block
\* coordinates, the file and the LUT: none is left over from before the
\* read, and none is computed from memory the read did not fill.
Determined(pImage) == \A i \in 1..Len(pImage) : pImage[i].k = "val"

\* C22: with no SetPartialLUT in between, two reads of the same block of a
\* band return byte-identical buffers: the buffer depends only on the block
\* coordinates, the file and the band's LUT.  The read of the model is a
\* function of these, so the buffers of two reads differ exactly where a
\* scalar is not determined by them.
OrigC22 ==
    rd.status = "done" => Determined(rd.pImage)

\* The list the table is made from: the gains, reversed when the step is
\* negative.
OrderedGains == IF world.stepSize < 0 THEN Reverse(world.gains) ELSE world.gains

TableLength == Abs(world.stepSize) * world.numberOfValues

\* The index of the k-th raw value, k from 0.
RawIndex(k) == world.pixelFirstLutValue + k * Abs(world.stepSize)

Between(v, a, b) == (a <= v /\ v <= b) \/ (b <= v /\ v <= a)

\* The values at the indices of the table strictly between the places of
\* two consecutive values of the list lie between those two values.
InteriorBracketed(list) ==
    \A k \in 0..(world.numberOfValues - 2) :
        \A x \in (RawIndex(k) + 1)..(RawIndex(k + 1) - 1) :
            x \in 0..(TableLength - 1)
                => Between(rd.m_nfTable[x + 1], list[k + 1], list[k + 2])

CalibTypeOf(eCalib) ==
    CASE eCalib = "Sigma0" -> "Sigma Nought"
      [] eCalib = "Beta0" -> "Beta Nought"
      [] eCalib = "Gamma" -> "Gamma"
      [] OTHER -> ""

EntriesFor(pole, eCalib) ==
    { k \in 1..Len(world.luts) :
        /\ world.luts[k].pole = pole /\ world.luts[k].valid
        /\ world.luts[k].type = CalibTypeOf(eCalib) }

\* C24: the calibrated band of polarization P in the view of calibration K
\* has the LUT of the lookupTableFileName entry with pole P and type K, and
\* never the LUT of an entry of another polarization, the case where P has
\* no such entry included.
OrigC24 ==
    ds.status = "open" =>
        \A b \in 1..Len(ds.bands) :
            ds.bands[b].kind = "calib" =>
                LET es == EntriesFor(ds.bands[b].pole, ds.bands[b].m_eCalib)
                IN  /\ es # {} =>
                          \E k \in es :
                              ds.bands[b].m_nfOffset = world.luts[k].lut.offset
                    /\ es = {} =>
                          \A k \in 1..Len(world.luts) :
                              ds.bands[b].m_nfOffset # world.luts[k].lut.offset

\* The scalars the block buffer holds for pixel p of the window, against
\* the sample of the band's one source band at that place.
HoldsSourceSample(band, p) ==
    LET smp  == Sample(band.fid, BandType(band.file, band.srcBand), band.srcBand,
                       rd.nBlockYOff * BlockYSize + p[1],
                       rd.nBlockXOff * BlockXSize + p[2])
        n    == Components(band.eDataType)
        cell == (p[1] * BlockXSize + p[2]) * n + 1
    IN  /\ RatEq(rd.pImage[cell], Val(smp.re, 1))
        /\ n = 2 => RatEq(rd.pImage[cell + 1], Val(smp.im, 1))

\* C25: a raw band whose mapping is Straight is read by one direct read of
\* its single source band at the band's type, whatever the sample family
\* of the product: the read succeeds and every pixel of the window holds
\* the sample of that source band.
OrigC25 ==
    (/\ ds.status = "open" /\ rd.status = "done"
     /\ ds.bands[rd.band].kind = "raw" /\ ~ds.bands[rd.band].twoBandComplex) =>
        /\ rd.eErr = "CE_None"
        /\ \A p \in ReadPixels : HoldsSourceSample(ds.bands[rd.band], p)

\* Some <ipdf> node names a file that ends in .NTF
HasNTF == \E i \in 1..Len(world.ipdf) : world.ipdf[i].ext = "ntf"

\* C26: the packaging goes by the file extension alone.  With no .NTF among
\* the <ipdf> nodes every raw band reads source band 1 of the file whose
\* node has the band's polarization as its pole; with a .NTF every band is
\* bound to that file and band n reads source band n.  This holds for any
\* number of <ipdf> nodes, nodes without a pole and a number of nodes that
\* differs from the number of polarizations included.  (Source band 1
\* exists in every file Open keeps, so without a .NTF no band is bound to a
\* source band its file does not have.)
OrigC26 ==
    /\ (ds.status = "crashed" /\ ds.reason = "nullband") => HasNTF
    /\ ds.status = "open" =>
          \A b \in 1..Len(ds.bands) :
              ds.bands[b].kind = "raw" =>
                  LET band == ds.bands[b]
                  IN  IF HasNTF
                      THEN /\ world.ipdf[band.fid].ext = "ntf"
                           /\ band.srcBand = band.nBand
                      ELSE /\ world.ipdf[band.fid].pole = band.pole
                           /\ band.srcBand = 1

\* C27: every XML tree the driver parsed is released exactly once by the
\* time the function that parsed it has returned, early error returns
\* included; product.xml kept by the dataset is released exactly once when
\* the dataset is destroyed, and not before.
OrigC27 ==
    (rd.status \in {"trees", "closed"} /\ ds.status # "crashed") =>
        \A k \in 1..Len(rd.trees) :
            IF rd.trees[k].owner = "dataset" /\ rd.status = "trees"
            THEN rd.trees[k].released = 0
            ELSE rd.trees[k].released = 1

\* C28: SetPartialLUT is not atomic for a block read of the same band.
\* When the caller serialises the two, no read meets a freed table or a
\* size that is not the table's, and once SetPartialLUT has run to its end
\* the band has the table and the size the call computed; a read that runs
\* between the steps of SetPartialLUT does meet the freed table (the
\* witness).
ThmC28 ==
    /\ (rd.serial /\ rd.status = "done") =>
          /\ "freed-lut" \notin rd.ub
          /\ rd.pcAtRead = "idle"
    /\ (ds.status = "open" /\ rd.pc = "idle") =>
          \A b \in 1..Len(ds.bands) :
              /\ ~TableFreed(ds.bands[b])
              /\ ds.bands[b].m_nTableSize = Len(ds.bands[b].m_nfTable)
              /\ rd.band = b => ds.bands[b] = rd.pending
    /\ (~rd.serial /\ rd.status = "done" /\ "freed-lut" \in rd.ub) =>
          rd.pcAtRead \in {"freed", "sized"}

\* A read that ran after CPLFree(m_nfTable) and before the new table was
\* allocated, and one that ran when the size was already the new one.
WitC28 ==
    /\ ~rd.serial /\ rd.status = "done"
    /\ "freed-lut" \in rd.ub
    /\ rd.pcAtRead = "sized"

\* C29: on every calibrated band of a dataset Open returned, after any
\* sequence of SetPartialLUT calls and block reads, every LUT access of a
\* block read uses a table that is not NULL and an index
\* c = block_x * blk_w + j with 0 <= c < GetLUTsize(), for every column j
\* of the window read.
OrigC29 ==
    (ds.status = "open" /\ rd.status = "done") =>
        /\ ds.bands[rd.band].hasTable
        /\ rd.ub \cap {"null-lut", "lut-overrun"} = {}
        /\ \A p \in ReadPixels :
              rd.nBlockXOff * BlockXSize + p[2] < ds.bands[rd.band].m_nTableSize

\* C30: no band of a dataset Open returned reaches the last branch of its
\* block read, the one behind CPLAssert(FALSE): what Open fixed for a raw
\* band matches one of the read cases, and the original type of a
\* calibrated band is one the calibrated read handles.
OrigC30 ==
    (ds.status = "open" /\ rd.status = "done") => "assert" \notin rd.ub

====
